---- MODULE Spec2Model ----
(***************************************************************************)
(* State-machine model of the cafe-engine core: EntityManager/Entity       *)
(* (src/src/engine/entity.h, entity.cpp) and Scene/SceneManager            *)
(* (src/src/engine/scene.h, scene.cpp).                                    *)
(***************************************************************************)
EXTENDS Integers, Sequences, FiniteSets, TLC

\* ------------------------------------------------------------------------
\* Bounds of the model
\* ------------------------------------------------------------------------
\* number of scenes constructed (make_unique<T>) in one run
MaxScenes == 4
\* number of entities created by the stand-alone EntityManager in one run
MaxEntities == 2
\* length of the pending-destroy list
MaxPending == 1
\* length of the pending-destroy list in the registry life-cycle runs
MaxQueued == 3
\* component instances one Entity object constructs
MaxInstances == 4
\* Entity objects constructed one after the other
MaxAddrs == 3
\* frames of the sprite sheet
MaxFrames == 2
\* largest frame time passed to Animator::update, in units of 0.0001 s
MaxDt == 2
\* the elapsed time of an Animator is followed up to this value
MaxElapsed == 8
MaxMapWidth == 3
\* the template argument N of the RingBuffer
RingCapacity == 2
\* the template argument N of the ObjectPool
PoolCapacity == 4
\* the longest time between two iterations of the game loop, in ticks
MaxFrameTicks == 3
\* the largest value handed to set_max_frame_skip
MaxSkip == 2
\* scenes constructed for the stack whose scenes hold entities
MaxStacked == 2

\* ------------------------------------------------------------------------
\* Program constants
\* ------------------------------------------------------------------------
\* nullptr for Scene* / Entity* / Component*
NullPtr == 0
\* the id no entity carries
INVALID_ENTITY == 0
INVALID_TEXTURE == 0
\* the 0.0001f of animation_frame_index, in units of 0.0001 s
Epsilon == 1
\* the frame of a default TextureRegion
NoFrame == -1

Names == {"", "a"}
TagValues == {"t1"}

Last(s) == s[Len(s)]
Front(s) == SubSeq(s, 1, Len(s) - 1)
Range(s) == {s[i] : i \in 1..Len(s)}

RECURSIVE Perms(_)
Perms(S) ==
  IF S = {} THEN {<<>>}
  ELSE UNION {{<<x>> \o p : p \in Perms(S \ {x})} : x \in S}

\* ========================================================================
\* Component / Entity
\* ========================================================================

\* Component: owner_ = nullptr, enabled_ = true until attached
NewComponent(kind, ptr, value) ==
  [kind |-> kind, ptr |-> ptr, owner |-> NullPtr, enabled |-> TRUE, value |-> value]

\* a null Component* (ptr 0 is the null address)
NullComponent ==
  [kind |-> "", ptr |-> NullPtr, owner |-> NullPtr, enabled |-> FALSE, value |-> ""]

\* Component::on_attach(entity): entity is the address of the owner
on_attach(comp, entity) == [comp EXCEPT !.owner = entity]

\* Component::on_detach
on_detach(comp) == [comp EXCEPT !.owner = NullPtr]

\* Component::set_enabled
set_enabled(comp, enabled) == [comp EXCEPT !.enabled = enabled]

\* a hook that ran on a component, and the component as the hook left it
ComponentEvent(hook, comp) ==
  [hook |-> hook, ptr |-> comp.ptr, kind |-> comp.kind, owner |-> comp.owner]

\* Entity::has_component<T>
has_component(e, kind) == kind \in DOMAIN e.component_map

\* faulty variant of add_component_run: no test for an existing component
add_component_run_always(e, kind, value) ==
  LET ptr == e.next_ptr
      comp == on_attach(NewComponent(kind, ptr, value), e.addr)
  IN [entity |-> [e EXCEPT !.component_map =
                             [k \in DOMAIN e.component_map \cup {kind} |->
                                IF k = kind THEN ptr ELSE e.component_map[k]],
                           !.components = Append(e.components, comp),
                           !.next_ptr = ptr + 1],
      events |-> <<ComponentEvent("on_attach", comp)>>,
      ret |-> ptr]

\* Entity::add_component<T>(args): the entity afterwards, the hooks fired
\* and the instance returned
add_component_run(e, kind, value) ==
  IF kind \in DOMAIN e.component_map
  THEN [entity |-> e, events |-> <<>>, ret |-> e.component_map[kind]]
  ELSE LET ptr == e.next_ptr
           comp == on_attach(NewComponent(kind, ptr, value), e.addr)
       IN [entity |-> [e EXCEPT !.component_map = (kind :> ptr) @@ e.component_map,
                                !.components = Append(e.components, comp),
                                !.next_ptr = ptr + 1],
           events |-> <<ComponentEvent("on_attach", comp)>>,
           ret |-> ptr]

\* Entity::add_component<T>(args), the entity afterwards
add_component(e, kind, value) == add_component_run(e, kind, value).entity

\* Entity::get_component<T>: the component, or the null component
get_component(e, kind) ==
  IF kind \in DOMAIN e.component_map
  THEN LET ptr == e.component_map[kind]
       IN IF \E i \in 1..Len(e.components) : e.components[i].ptr = ptr
          THEN e.components[CHOOSE i \in 1..Len(e.components) : e.components[i].ptr = ptr]
          ELSE NullComponent
  ELSE NullComponent

\* faulty variant of remove_component_run: the lookup entry is not erased
remove_component_run_keep_map(e, kind) ==
  IF kind \in DOMAIN e.component_map
  THEN LET ptr == e.component_map[kind]
           Keep(c) == c.ptr # ptr
           Gone(c) == c.ptr = ptr
       IN [entity |-> [e EXCEPT !.components = SelectSeq(e.components, Keep)],
           events |-> [i \in 1..Len(SelectSeq(e.components, Gone)) |->
                         ComponentEvent("on_detach", on_detach(SelectSeq(e.components, Gone)[i]))]]
  ELSE [entity |-> e, events |-> <<>>]

\* faulty variant of remove_component_run: on_detach is not called
remove_component_run_no_detach(e, kind) ==
  IF kind \in DOMAIN e.component_map
  THEN LET ptr == e.component_map[kind]
           Keep(c) == c.ptr # ptr
       IN [entity |-> [e EXCEPT !.components = SelectSeq(e.components, Keep),
                                !.component_map = [k \in DOMAIN e.component_map \ {kind} |->
                                                     e.component_map[k]]],
           events |-> <<>>]
  ELSE [entity |-> e, events |-> <<>>]

\* Entity::remove_component<T>: the entity afterwards and the hooks fired
remove_component_run(e, kind) ==
  IF kind \in DOMAIN e.component_map
  THEN LET ptr == e.component_map[kind]
           Keep(c) == c.ptr # ptr
           Gone(c) == c.ptr = ptr
       IN [entity |-> [e EXCEPT !.components = SelectSeq(e.components, Keep),
                                !.component_map = [k \in DOMAIN e.component_map \ {kind} |->
                                                     e.component_map[k]]],
           events |-> [i \in 1..Len(SelectSeq(e.components, Gone)) |->
                         ComponentEvent("on_detach", on_detach(SelectSeq(e.components, Gone)[i]))]]
  ELSE [entity |-> e, events |-> <<>>]

\* Entity::remove_component<T>, the entity afterwards
remove_component(e, kind) == remove_component_run(e, kind).entity

\* Entity::Entity(id, manager) at address addr: the entity and the hooks
\* fired; every entity carries a Transform
NewEntityRun(id, addr) ==
  add_component_run([id |-> id, addr |-> addr, name |-> "", active |-> TRUE,
                     components |-> <<>>, component_map |-> <<>>, next_ptr |-> 1],
                    "Transform", "")

\* std::make_unique<Entity>(id, this): the id serves as the address
NewEntity(id) == NewEntityRun(id, id).entity

\* an entity that was moved from (or no entity at all when addr is null)
MovedFrom(addr) ==
  [id |-> INVALID_ENTITY, addr |-> addr, name |-> "", active |-> TRUE,
   components |-> <<>>, component_map |-> <<>>, next_ptr |-> 1]

\* faulty variant of move_entity: the owner pointers are not rebound
move_entity_no_rebind(other, addr) ==
  [entity |-> [other EXCEPT !.addr = addr],
   other |-> [MovedFrom(other.addr) EXCEPT !.active = other.active,
                                           !.next_ptr = other.next_ptr]]

\* Entity::Entity(Entity&& other), constructed at address addr: the new
\* entity and what is left of other
move_entity(other, addr) ==
  [entity |-> [other EXCEPT !.addr = addr,
                            !.components = [i \in 1..Len(other.components) |->
                                              [other.components[i] EXCEPT !.owner = addr]]],
   other |-> [MovedFrom(other.addr) EXCEPT !.active = other.active,
                                           !.next_ptr = other.next_ptr]]

\* Entity::operator=(Entity&& other) on the entity this
move_assign(this, other) ==
  IF this.addr # other.addr
  THEN [entity |-> [other EXCEPT !.addr = this.addr,
                                 !.components = [i \in 1..Len(other.components) |->
                                                   [other.components[i] EXCEPT !.owner = this.addr]]],
        other |-> [MovedFrom(other.addr) EXCEPT !.active = other.active,
                                                !.next_ptr = other.next_ptr]]
  ELSE [entity |-> this, other |-> other]

\* Entity::~Entity: on_detach on every component, in list order
destruct_entity(e) ==
  [i \in 1..Len(e.components) |-> ComponentEvent("on_detach", on_detach(e.components[i]))]

\* Entity::set_name
set_name(e, name) == [e EXCEPT !.name = name]

\* Entity::set_active
set_active(e, b) == [e EXCEPT !.active = b]

\* ========================================================================
\* EntityManager, as a value: next_id_, entities_, pending_destroy_.
\* `order` is the iteration order of the unordered_map entities_.
\* ========================================================================

NewEntityManager ==
  [next_id |-> 1, entities |-> <<>>, order |-> <<>>, pending_destroy |-> <<>>]

\* "Entity_" + std::to_string(id)
DefaultName(id) == "Entity_" \o ToString(id)

\* the iteration orders entities_ may have after inserting id
InsertOrders(m, id) == Perms(DOMAIN m.entities \cup {id})

\* the id create_entity hands out: id = next_id_++
create_entity_id(m) == m.next_id

\* EntityManager::create_entity(name); ord is the resulting iteration order
create_entity(m, name, ord) ==
  LET id == create_entity_id(m)
      entity == set_name(NewEntity(id), IF name = "" THEN DefaultName(id) ELSE name)
  IN [m EXCEPT !.next_id = id + 1,
               !.entities = (id :> entity) @@ m.entities,
               !.order = ord]

\* faulty variant of destroy_entity: erase at once instead of queueing
destroy_entity_now(m, id) ==
  [m EXCEPT !.entities = [i \in DOMAIN m.entities \ {id} |-> m.entities[i]],
            !.order = SelectSeq(m.order, LAMBDA i : i # id)]

\* EntityManager::destroy_entity(id)
destroy_entity(m, id) ==
  [m EXCEPT !.pending_destroy = Append(m.pending_destroy, id)]

\* faulty variant of get_entity: the handle is returned without the search
get_entity_unchecked(m, id) == id

\* EntityManager::get_entity(id): the entity's handle, or NullPtr
get_entity(m, id) == IF id \in DOMAIN m.entities THEN id ELSE NullPtr

\* EntityManager::find_entity(name): first match in iteration order
find_entity(m, name) ==
  LET hits == SelectSeq(m.order, LAMBDA i : m.entities[i].name = name)
  IN IF hits = <<>> THEN NullPtr ELSE Head(hits)

\* EntityManager::find_entities_with_tag(tag)
find_entities_with_tag(m, tag) ==
  SelectSeq(m.order,
            LAMBDA i : LET t == get_component(m.entities[i], "Tag")
                       IN t.ptr # NullPtr /\ t.value = tag)

\* EntityManager::entity_count
entity_count(m) == Cardinality(DOMAIN m.entities)

\* faulty variant of clear: the id counter starts over
clear_reset_ids(m) ==
  [m EXCEPT !.entities = <<>>, !.order = <<>>, !.pending_destroy = <<>>, !.next_id = 1]

\* EntityManager::clear
clear(m) == [m EXCEPT !.entities = <<>>, !.order = <<>>, !.pending_destroy = <<>>]

\* faulty variant of erase: erase(find(id)) without the end() test, which
\* for a missing id removes whatever the iterator reaches
erase_unchecked(m, id) ==
  LET victim == IF id \in DOMAIN m.entities \/ m.order = <<>> THEN id ELSE Head(m.order)
  IN [m EXCEPT !.entities = [i \in DOMAIN m.entities \ {victim} |-> m.entities[i]],
               !.order = SelectSeq(m.order, LAMBDA i : i # victim)]

\* entities_.erase(id): removes the entry of key id when there is one
erase(m, id) ==
  IF id \in DOMAIN m.entities
  THEN [m EXCEPT !.entities = [i \in DOMAIN m.entities \ {id} |-> m.entities[i]],
                 !.order = SelectSeq(m.order, LAMBDA i : i # id)]
  ELSE m

\* the loop of process_pending_destroys over the queued ids
RECURSIVE erase_all(_, _)
erase_all(m, ids) ==
  IF ids = <<>> THEN m ELSE erase_all(erase(m, Head(ids)), Tail(ids))

\* faulty variant of process_pending_destroys: the list is not emptied
process_pending_destroys_keep_list(m) == erase_all(m, m.pending_destroy)

\* EntityManager::process_pending_destroys
process_pending_destroys(m) ==
  [erase_all(m, m.pending_destroy) EXCEPT !.pending_destroy = <<>>]

\* EntityManager::for_each(callback), the callback destroying the ids cb[id]
\* when it visits id.  The loop walks entities_ as it is at each step.
\* Result: the manager afterwards and the list of visits (the entity
\* visited and what its callback destroyed).
RECURSIVE for_each_from(_, _, _, _)
for_each_from(m, todo, cb, seen) ==
  IF todo = <<>> THEN [m |-> m, visited |-> seen]
  ELSE LET id == Head(todo)
       IN IF id \notin DOMAIN m.entities
          THEN for_each_from(m, Tail(todo), cb, seen)
          ELSE IF m.entities[id].active
          THEN LET RECURSIVE run(_, _)
                   run(mm, ids) == IF ids = <<>> THEN mm
                                   ELSE run(destroy_entity(mm, Head(ids)), Tail(ids))
                   m2 == run(m, cb[id])
               IN for_each_from(m2, Tail(todo), cb,
                                Append(seen, [id |-> id, destroys |-> cb[id]]))
          ELSE for_each_from(m, Tail(todo), cb, seen)

for_each(m, cb) == for_each_from(m, m.order, cb, <<>>)

\* faulty variant of passes_filter: the enable flag is not tested
passes_filter_any(e, kind) ==
  e.active /\ get_component(e, kind).ptr # NullPtr

\* the test of for_each<T>: the entity is active, has a T, and it is enabled
passes_filter(e, kind) ==
  e.active /\ get_component(e, kind).ptr # NullPtr /\ get_component(e, kind).enabled

\* EntityManager::for_each<T>(callback) from position `todo` of the
\* iteration, with the callbacks cb as in for_each_from
RECURSIVE for_each_kind_from(_, _, _, _, _)
for_each_kind_from(m, todo, kind, cb, seen) ==
  IF todo = <<>> THEN [m |-> m, visited |-> seen]
  ELSE LET id == Head(todo)
       IN IF id \notin DOMAIN m.entities
          THEN for_each_kind_from(m, Tail(todo), kind, cb, seen)
          ELSE IF passes_filter(m.entities[id], kind)
          THEN LET RECURSIVE run(_, _)
                   run(mm, ids) == IF ids = <<>> THEN mm
                                   ELSE run(destroy_entity(mm, Head(ids)), Tail(ids))
                   m2 == run(m, cb[id])
               IN for_each_kind_from(m2, Tail(todo), kind, cb,
                                     Append(seen, [id |-> id, destroys |-> cb[id]]))
          ELSE for_each_kind_from(m, Tail(todo), kind, cb, seen)

for_each_kind(m, kind, cb) == for_each_kind_from(m, m.order, kind, cb, <<>>)

\* ========================================================================
\* SpriteSheet animations and the Animator component. Times are integers,
\* in units of 0.0001 s.
\* ========================================================================

\* SpriteSheet::define_animation(name, start_frame, end_frame, ...) on a
\* sheet of frame_total frames: the frames of the range that exist
define_animation(animations, frame_total, name, start_frame, end_frame, frame_duration, looping) ==
  LET indices == [i \in 1..(IF end_frame >= start_frame THEN end_frame - start_frame + 1 ELSE 0)
                    |-> start_frame + i - 1]
      anim == [frame_indices |-> SelectSeq(indices, LAMBDA i : i >= 0 /\ i < frame_total),
               frame_duration |-> frame_duration,
               looping |-> looping]
  IN [n \in DOMAIN animations \cup {name} |-> IF n = name THEN anim ELSE animations[n]]

\* a SpriteSheet as constructed: no texture, no frames
NewSpriteSheet == [texture |-> INVALID_TEXTURE, frames |-> <<>>, frame_by_name |-> <<>>]

\* SpriteSheet::set_texture
set_texture(sh, texture) == [sh EXCEPT !.texture = texture]

\* SpriteSheet::define_frame(name, ...): frames holds the names of frames_
define_frame(sh, name) ==
  IF sh.texture = INVALID_TEXTURE THEN sh
  ELSE [sh EXCEPT !.frame_by_name = [n \in DOMAIN sh.frame_by_name \cup {name} |->
                                       IF n = name THEN Len(sh.frames) ELSE sh.frame_by_name[n]],
                  !.frames = Append(sh.frames, name)]

\* SpriteSheet::define_grid(..., columns, rows, ...) with columns, rows >= 0
define_grid(sh, columns, rows) ==
  IF sh.texture = INVALID_TEXTURE THEN sh
  ELSE [sh EXCEPT !.frames = [i \in 1..(columns * rows) |-> "frame_" \o ToString(i - 1)],
                  !.frame_by_name = [n \in {"frame_" \o ToString(i - 1) : i \in 1..(columns * rows)} |->
                                       CHOOSE k \in 0..(columns * rows - 1) : n = "frame_" \o ToString(k)]]

\* SpriteSheet::frame_index(name)
frame_index(sh, name) ==
  IF name \notin DOMAIN sh.frame_by_name THEN 0 - 1 ELSE sh.frame_by_name[name]

\* faulty variant of define_animation_names: unknown names are not skipped
define_animation_names_no_skip(animations, sh, name, frame_names, frame_duration, looping) ==
  LET anim == [frame_indices |-> [i \in 1..Len(frame_names) |-> frame_index(sh, frame_names[i])],
               frame_duration |-> frame_duration,
               looping |-> looping]
  IN [n \in DOMAIN animations \cup {name} |-> IF n = name THEN anim ELSE animations[n]]

\* SpriteSheet::define_animation(name, frame_names, frame_duration, looping)
define_animation_names(animations, sh, name, frame_names, frame_duration, looping) ==
  LET indices == [i \in 1..Len(frame_names) |-> frame_index(sh, frame_names[i])]
      anim == [frame_indices |-> SelectSeq(indices, LAMBDA idx : idx >= 0),
               frame_duration |-> frame_duration,
               looping |-> looping]
  IN [n \in DOMAIN animations \cup {name} |-> IF n = name THEN anim ELSE animations[n]]

\* SpriteSheet::frame(index) on a sheet of frame_total frames: &frames_[index]
\* as the place of the frame in frames_, counted from 1, or NullPtr
frame(frame_total, index) ==
  IF index < 0 \/ index >= frame_total THEN NullPtr ELSE index + 1

\* a null Animation*
NoAnimation == ""

\* SpriteSheet::animation(name): the key of the entry found, or NoAnimation
animation(animations, name) ==
  IF name \notin DOMAIN animations THEN NoAnimation ELSE name

\* Animation::frame_count
frame_count(anim) == Len(anim.frame_indices)

\* Animation::total_duration
total_duration(anim) == frame_count(anim) * anim.frame_duration

\* faulty variant of animation_frame_index: a looping animation does not wrap
animation_frame_index_no_wrap(animations, anim_name, time) ==
  IF anim_name \notin DOMAIN animations \/ animations[anim_name].frame_indices = <<>>
  THEN 0
  ELSE LET anim == animations[anim_name]
           total == total_duration(anim)
           Min(a, b) == IF a <= b THEN a ELSE b
           Max(a, b) == IF a >= b THEN a ELSE b
           t == Max(Min(time, total - Epsilon), 0)
           frame_num == Max(Min(t \div anim.frame_duration, frame_count(anim) - 1), 0)
       IN IF total <= 0 THEN anim.frame_indices[1]
          ELSE anim.frame_indices[frame_num + 1]

\* SpriteSheet::animation_frame_index(anim_name, time)
animation_frame_index(animations, anim_name, time) ==
  IF anim_name \notin DOMAIN animations \/ animations[anim_name].frame_indices = <<>>
  THEN 0
  ELSE LET anim == animations[anim_name]
           total == total_duration(anim)
           Min(a, b) == IF a <= b THEN a ELSE b
           Max(a, b) == IF a >= b THEN a ELSE b
           t == IF anim.looping THEN time % total
                ELSE Max(Min(time, total - Epsilon), 0)
           frame_num == Max(Min(t \div anim.frame_duration, frame_count(anim) - 1), 0)
       IN IF total <= 0 THEN anim.frame_indices[1]
          ELSE anim.frame_indices[frame_num + 1]

\* a default-constructed Animator: sheet is whether sheet_ points to the sheet
NewAnimator ==
  [sheet |-> FALSE, current_anim |-> "", elapsed |-> 0, playing |-> FALSE, speed |-> 1]

\* Animator::set_sprite_sheet
set_sprite_sheet(a, sheet) == [a EXCEPT !.sheet = sheet]

\* Animator::play(animation, force)
Animator_play(a, anim_name, force) ==
  IF ~force /\ a.playing /\ a.current_anim = anim_name THEN a
  ELSE [a EXCEPT !.current_anim = anim_name, !.elapsed = 0, !.playing = TRUE]

\* faulty variant of Animator_update: a finished animation keeps playing
Animator_update_never_stops(a, animations, dt) ==
  IF ~a.playing \/ ~a.sheet THEN a
  ELSE [a EXCEPT !.elapsed = a.elapsed + dt * a.speed]

\* Animator::update(dt), with the animations of the sheet
Animator_update(a, animations, dt) ==
  IF ~a.playing \/ ~a.sheet THEN a
  ELSE LET elapsed == a.elapsed + dt * a.speed
       IN IF /\ a.current_anim \in DOMAIN animations
             /\ ~animations[a.current_anim].looping
             /\ elapsed >= total_duration(animations[a.current_anim])
          THEN [a EXCEPT !.elapsed = elapsed, !.playing = FALSE]
          ELSE [a EXCEPT !.elapsed = elapsed]

\* Animator::pause
Animator_pause(a) == [a EXCEPT !.playing = FALSE]

\* Animator::resume
Animator_resume(a) == [a EXCEPT !.playing = TRUE]

\* Animator::stop
Animator_stop(a) == [a EXCEPT !.playing = FALSE, !.current_anim = "", !.elapsed = 0]

\* Animator::is_finished
Animator_is_finished(a, animations) ==
  IF ~a.sheet THEN TRUE
  ELSE IF a.current_anim \notin DOMAIN animations THEN TRUE
  ELSE IF animations[a.current_anim].looping THEN FALSE
  ELSE a.elapsed >= total_duration(animations[a.current_anim])

\* Animator::current_region, as the index of the frame shown (NoFrame for
\* the empty region of an animator without a sheet)
Animator_current_region(a, animations) ==
  IF ~a.sheet THEN NoFrame
  ELSE animation_frame_index(animations, a.current_anim, a.elapsed)

\* ========================================================================
\* GameLoop. Times are whole ticks of 1/60 s. pc is where run() stands:
\* "idle" (not in run), "test" (the while condition), "poll", "updates"
\* (the inner while), "render". trace, due and stopped_at describe the
\* iteration in progress: the callbacks it made so far, the fixed updates
\* the accumulator called for when it began, and the pass of the inner
\* loop whose update callback first called stop() (0: none did). The FPS
\* counters are left out.
\* ========================================================================

TicksPerSecond == 60

NewGameLoop ==
  [running |-> FALSE, fixed_dt |-> 1, max_frame_skip |-> 5,
   update_callback |-> FALSE, render_callback |-> FALSE, window_open |-> TRUE,
   pc |-> "idle", accumulator |-> 0, updates |-> 0,
   trace |-> <<>>, due |-> 0, stopped_at |-> 0]

\* GameLoop::set_target_fps
set_target_fps(l, fps) ==
  IF fps > 0 THEN [l EXCEPT !.fixed_dt = TicksPerSecond \div fps] ELSE l

\* GameLoop::set_max_frame_skip
set_max_frame_skip(l, frames) ==
  IF frames > 0 THEN [l EXCEPT !.max_frame_skip = frames] ELSE l

\* GameLoop::stop
stop(l) == [l EXCEPT !.running = FALSE]

\* GameLoop::run, entry: running_ = true, accumulator = 0
run_enter(l) ==
  [l EXCEPT !.running = TRUE, !.accumulator = 0, !.pc = "test",
            !.trace = <<>>, !.due = 0, !.stopped_at = 0]

\* GameLoop::run, leaving the outer loop: running_ = false
run_leave(l) == [l EXCEPT !.running = FALSE, !.pc = "idle"]

\* GameLoop::run, the condition of the outer while
run_test(l) ==
  IF l.running /\ l.window_open
  THEN [l EXCEPT !.pc = "poll", !.trace = <<>>, !.due = 0, !.stopped_at = 0]
  ELSE run_leave(l)

\* GameLoop::run from poll_events to the inner loop; still_open is the
\* window after the events, frame_dt the time since the last iteration
run_poll(l, still_open, frame_dt) ==
  IF ~still_open THEN run_leave([l EXCEPT !.window_open = FALSE])
  ELSE LET clamped == IF frame_dt > l.fixed_dt * l.max_frame_skip
                      THEN l.fixed_dt * l.max_frame_skip ELSE frame_dt
           total == l.accumulator + clamped
           wanted == total \div l.fixed_dt
       IN [l EXCEPT !.accumulator = total, !.updates = 0, !.pc = "updates",
                    !.due = IF wanted < l.max_frame_skip THEN wanted ELSE l.max_frame_skip]

\* faulty variant of run_update: the inner loop ends when running_ is false
run_update_unwinds(l, stops, closes) ==
  IF l.running /\ l.accumulator >= l.fixed_dt /\ l.updates < l.max_frame_skip
  THEN LET called == IF l.update_callback
                     THEN [l EXCEPT !.trace = Append(l.trace, "update"),
                                    !.running = l.running /\ ~stops,
                                    !.stopped_at = IF stops /\ l.stopped_at = 0 THEN l.updates + 1
                                                  ELSE l.stopped_at,
                                    !.window_open = l.window_open /\ ~closes]
                     ELSE l
       IN [called EXCEPT !.accumulator = l.accumulator - l.fixed_dt, !.updates = l.updates + 1]
  ELSE [l EXCEPT !.pc = "render"]

\* GameLoop::run, one pass of the inner while; the update callback calls
\* stop() when stops, and closes the window when closes
run_update(l, stops, closes) ==
  IF l.accumulator >= l.fixed_dt /\ l.updates < l.max_frame_skip
  THEN LET called == IF l.update_callback
                     THEN [l EXCEPT !.trace = Append(l.trace, "update"),
                                    !.running = l.running /\ ~stops,
                                    !.stopped_at = IF stops /\ l.stopped_at = 0 THEN l.updates + 1
                                                  ELSE l.stopped_at,
                                    !.window_open = l.window_open /\ ~closes]
                     ELSE l
       IN [called EXCEPT !.accumulator = l.accumulator - l.fixed_dt, !.updates = l.updates + 1]
  ELSE [l EXCEPT !.pc = "render"]

\* faulty variant of run_render: the render callback is called twice
run_render_twice(l, stops) ==
  LET called == IF l.render_callback
                THEN [l EXCEPT !.trace = l.trace \o <<"render", "render">>,
                               !.running = l.running /\ ~stops]
                ELSE l
  IN [called EXCEPT !.pc = "test"]

\* GameLoop::run, the render callback and the end of the iteration
run_render(l, stops) ==
  LET called == IF l.render_callback
                THEN [l EXCEPT !.trace = Append(l.trace, "render"), !.running = l.running /\ ~stops]
                ELSE l
  IN [called EXCEPT !.pc = "test"]

\* ========================================================================
\* RingBuffer<int, RingCapacity>: data_, head_, tail_, size_.
\* ========================================================================

NewRingBuffer ==
  [data |-> [i \in 0..(RingCapacity - 1) |-> 0], head |-> 0, tail |-> 0, size |-> 0]

\* RingBuffer::empty, RingBuffer::full
ring_empty(r) == r.size = 0
ring_full(r) == r.size = RingCapacity

\* RingBuffer::push: the buffer afterwards and the value returned
ring_push(r, value) ==
  IF ring_full(r) THEN [ring |-> r, ret |-> FALSE]
  ELSE [ring |-> [r EXCEPT !.data[r.head] = value,
                           !.head = (r.head + 1) % RingCapacity,
                           !.size = r.size + 1],
        ret |-> TRUE]

\* faulty variant of ring_push_overwrite: the newest element is dropped
ring_push_overwrite_drops_newest(r, value) ==
  IF ring_full(r)
  THEN [r EXCEPT !.data[(r.head + RingCapacity - 1) % RingCapacity] = value]
  ELSE ring_push(r, value).ring

\* RingBuffer::push_overwrite
ring_push_overwrite(r, value) ==
  IF ring_full(r)
  THEN ring_push([r EXCEPT !.tail = (r.tail + 1) % RingCapacity, !.size = r.size - 1], value).ring
  ELSE ring_push(r, value).ring

\* std::nullopt
Nullopt == [has_value |-> FALSE, value |-> 0]

\* RingBuffer::pop: the buffer afterwards and the optional returned
ring_pop(r) ==
  IF ring_empty(r) THEN [ring |-> r, ret |-> Nullopt]
  ELSE [ring |-> [r EXCEPT !.tail = (r.tail + 1) % RingCapacity, !.size = r.size - 1],
        ret |-> [has_value |-> TRUE, value |-> r.data[r.tail]]]

\* RingBuffer::clear
ring_clear(r) == [r EXCEPT !.head = 0, !.tail = 0, !.size = 0]

\* RingBuffer::operator[] for index 0 .. size-1, oldest first
ring_contents(r) == [i \in 1..r.size |-> r.data[(r.tail + i - 1) % RingCapacity]]

\* ========================================================================
\* ObjectPool<T, PoolCapacity>: used_, next_free_. A T* is the number of
\* its slot plus one; NullPtr is null, PoolCapacity + 1 points outside.
\* ========================================================================

NewObjectPool == [used |-> [i \in 0..(PoolCapacity - 1) |-> FALSE], next_free |-> 0]

\* std::bitset::count
used_count(p) == Cardinality({i \in DOMAIN p.used : p.used[i]})

\* ObjectPool::active_count, ObjectPool::available
active_count(p) == used_count(p)
available(p) == PoolCapacity - used_count(p)

\* faulty variant of acquire: the search always starts at slot 0 and takes it
acquire_first_slot(p) ==
  [pool |-> [p EXCEPT !.used[0] = TRUE, !.next_free = 1 % PoolCapacity], ret |-> 1]

\* ObjectPool::acquire: the pool afterwards and the pointer returned
acquire(p) ==
  LET free == {i \in 0..(PoolCapacity - 1) : ~p.used[(p.next_free + i) % PoolCapacity]}
  IN IF free = {} THEN [pool |-> p, ret |-> NullPtr]
     ELSE LET first == CHOOSE i \in free : \A j \in free : i <= j
              index == (p.next_free + first) % PoolCapacity
          IN [pool |-> [p EXCEPT !.used[index] = TRUE, !.next_free = (index + 1) % PoolCapacity],
              ret |-> index + 1]

\* ObjectPool::release: the pool afterwards and the exception thrown, if any
release(p, obj) ==
  IF obj = NullPtr THEN [pool |-> p, thrown |-> ""]
  ELSE IF obj < 1 \/ obj > PoolCapacity THEN [pool |-> p, thrown |-> "invalid_argument"]
  ELSE IF ~p.used[obj - 1] THEN [pool |-> p, thrown |-> "logic_error"]
  ELSE [pool |-> [p EXCEPT !.used[obj - 1] = FALSE, !.next_free = obj - 1], thrown |-> ""]

\* ========================================================================
\* Isometric projection and TileMap. A float is an exact fraction
\* [n, d] with d > 0; a Vec2 is [x, y] of fractions.
\* ========================================================================

RECURSIVE GCD(_, _)
GCD(a, b) == IF b = 0 THEN a ELSE GCD(b, a % b)
Abs(a) == IF a < 0 THEN 0 - a ELSE a
\* the fraction n/d in lowest terms, d # 0
Q(n, d) ==
  LET g == GCD(Abs(n), Abs(d))
      sign == IF d < 0 THEN 0 - 1 ELSE 1
  IN [n |-> (sign * n) \div g, d |-> (sign * d) \div g]
QInt(i) == [n |-> i, d |-> 1]
QAdd(a, b) == Q(a.n * b.d + b.n * a.d, a.d * b.d)
QSub(a, b) == Q(a.n * b.d - b.n * a.d, a.d * b.d)
QMul(a, b) == Q(a.n * b.n, a.d * b.d)
QDiv(a, b) == Q(a.n * b.d, a.d * b.n)
QEq(a, b) == a.n * b.d = b.n * a.d
QLe(a, b) == a.n * b.d <= b.n * a.d
\* std::floor and std::ceil, then static_cast<int>
QFloor(a) == a.n \div a.d
QCeil(a) == 0 - ((0 - a.n) \div a.d)

\* the static members of Isometric as first set
NewIsometric == [tile_width |-> 64, tile_height |-> 32, camera_x |-> 0, camera_y |-> 0]

\* Isometric::tile_to_screen(tile_x, tile_y)
tile_to_screen(iso, tile_x, tile_y) ==
  [x |-> QSub(QMul(QSub(tile_x, tile_y), Q(iso.tile_width, 2)), QInt(iso.camera_x)),
   y |-> QSub(QMul(QAdd(tile_x, tile_y), Q(iso.tile_height, 2)), QInt(iso.camera_y))]

\* faulty variant of screen_to_tile: the camera offset is not put back
screen_to_tile_no_camera(iso, screen_x, screen_y) ==
  LET half_width == Q(iso.tile_width, 2)
      half_height == Q(iso.tile_height, 2)
  IN [x |-> QMul(QAdd(QDiv(screen_x, half_width), QDiv(screen_y, half_height)), Q(1, 2)),
      y |-> QMul(QSub(QDiv(screen_y, half_height), QDiv(screen_x, half_width)), Q(1, 2))]

\* Isometric::screen_to_tile(screen_x, screen_y)
screen_to_tile(iso, screen_x, screen_y) ==
  LET sx == QAdd(screen_x, QInt(iso.camera_x))
      sy == QAdd(screen_y, QInt(iso.camera_y))
      half_width == Q(iso.tile_width, 2)
      half_height == Q(iso.tile_height, 2)
  IN [x |-> QMul(QAdd(QDiv(sx, half_width), QDiv(sy, half_height)), Q(1, 2)),
      y |-> QMul(QSub(QDiv(sy, half_height), QDiv(sx, half_width)), Q(1, 2))]

\* Isometric::tile_depth
tile_depth(tile_x, tile_y) == tile_x + tile_y

\* Tile{}: tile_id 0, height 0, flags 0
EmptyTile == [tile_id |-> 0, height |-> 0, flags |-> 0]

\* TileMap(): no tiles; mutable_empty is the static local of the mutable at()
NewTileMap == [width |-> 0, height |-> 0, tiles |-> <<>>, mutable_empty |-> EmptyTile]

\* TileMap::resize
resize(map, width, height) ==
  [map EXCEPT !.width = width, !.height = height,
              !.tiles = [i \in 1..(width * height) |-> EmptyTile]]

\* TileMap::fill
fill(map, tile) == [map EXCEPT !.tiles = [i \in 1..Len(map.tiles) |-> tile]]

\* TileMap::in_bounds
in_bounds(map, x, y) == x >= 0 /\ x < map.width /\ y >= 0 /\ y < map.height

\* TileMap::at(x, y) const
at(map, x, y) ==
  IF ~in_bounds(map, x, y) THEN EmptyTile
  ELSE map.tiles[y * map.width + x + 1]

\* faulty variant of at_mutable: the static tile is not reset
at_mutable_no_reset(map, x, y) ==
  IF ~in_bounds(map, x, y) THEN [map |-> map, tile |-> map.mutable_empty]
  ELSE [map |-> map, tile |-> map.tiles[y * map.width + x + 1]]

\* TileMap::at(x, y), mutable: the map afterwards and the tile referred to
at_mutable(map, x, y) ==
  IF ~in_bounds(map, x, y)
  THEN [map |-> [map EXCEPT !.mutable_empty = EmptyTile], tile |-> EmptyTile]
  ELSE [map |-> map, tile |-> map.tiles[y * map.width + x + 1]]

\* map.at(x, y) = tile: assignment through the reference of the mutable at()
assign_at(map, x, y, tile) ==
  IF ~in_bounds(map, x, y)
  THEN [at_mutable(map, x, y).map EXCEPT !.mutable_empty = tile]
  ELSE [map EXCEPT !.tiles[y * map.width + x + 1] = tile]

\* std::sort by depth: the orders of the entries that ascend in depth
\* (entries of one depth come out in any order)
RECURSIVE sort_by_depth(_)
sort_by_depth(entries) ==
  IF entries = {} THEN {<<>>}
  ELSE LET firsts == {e \in entries : \A f \in entries : e.depth <= f.depth}
       IN UNION {{<<e>> \o rest : rest \in sort_by_depth(entries \ {e})} : e \in firsts}

\* TileMap::for_each_visible, the bounding box: the corners of the viewport
\* as tiles, two tiles of margin, clamped to the map
visible_box(map, iso, viewport) ==
  LET corners == {screen_to_tile(iso, QInt(viewport.x + dx), QInt(viewport.y + dy)) :
                    dx \in {0, viewport.width}, dy \in {0, viewport.height}}
      least_x == CHOOSE c \in corners : \A o \in corners : QLe(c.x, o.x)
      most_x == CHOOSE c \in corners : \A o \in corners : QLe(o.x, c.x)
      least_y == CHOOSE c \in corners : \A o \in corners : QLe(c.y, o.y)
      most_y == CHOOSE c \in corners : \A o \in corners : QLe(o.y, c.y)
      Min(a, b) == IF a <= b THEN a ELSE b
      Max(a, b) == IF a >= b THEN a ELSE b
  IN [min_x |-> Max(0, QFloor(least_x.x) - 2),
      max_x |-> Min(map.width - 1, QCeil(most_x.x) + 2),
      min_y |-> Max(0, QFloor(least_y.y) - 2),
      max_y |-> Min(map.height - 1, QCeil(most_y.y) + 2)]

\* faulty variant of on_screen: no margin around the viewport
on_screen_no_margin(iso, viewport, screen) ==
  /\ QLe(QInt(0), screen.x)
  /\ QLe(screen.x, QInt(viewport.width))
  /\ QLe(QInt(0), screen.y)
  /\ QLe(screen.y, QInt(viewport.height))

\* TileMap::for_each_visible, the test "actually visible on screen"
on_screen(iso, viewport, screen) ==
  LET margin_x == QInt(iso.tile_width)
      margin_y == QInt(iso.tile_height * 2)
  IN /\ QLe(QSub(QInt(0), margin_x), screen.x)
     /\ QLe(screen.x, QAdd(QInt(viewport.width), margin_x))
     /\ QLe(QSub(QInt(0), margin_y), screen.y)
     /\ QLe(screen.y, QAdd(QInt(viewport.height), margin_y))

\* faulty variant of depth_key: the height level is left out
depth_key_flat(map, tx, ty) == tile_depth(tx, ty)

\* the depth of a TileEntry
depth_key(map, tx, ty) == tile_depth(tx, ty) + at(map, tx, ty).height * 1000

\* faulty variant of visible_tiles: empty tiles are kept
visible_tiles_keep_empty(map, iso, viewport) ==
  LET box == visible_box(map, iso, viewport)
  IN IF box.min_x > box.max_x \/ box.min_y > box.max_y THEN {}
     ELSE {[x |-> p[1], y |-> p[2], depth |-> depth_key(map, p[1], p[2]),
            screen |-> tile_to_screen(iso, QInt(p[1]), QInt(p[2]))] :
             p \in {q \in (box.min_x..box.max_x) \X (box.min_y..box.max_y) :
                      on_screen(iso, viewport, tile_to_screen(iso, QInt(q[1]), QInt(q[2])))}}

\* TileMap::for_each_visible, the collection: the entries pushed to
\* visible_tiles
visible_tiles(map, iso, viewport) ==
  LET box == visible_box(map, iso, viewport)
  IN IF box.min_x > box.max_x \/ box.min_y > box.max_y THEN {}
     ELSE {[x |-> p[1], y |-> p[2], depth |-> depth_key(map, p[1], p[2]),
            screen |-> tile_to_screen(iso, QInt(p[1]), QInt(p[2]))] :
             p \in {q \in (box.min_x..box.max_x) \X (box.min_y..box.max_y) :
                      /\ at(map, q[1], q[2]).tile_id # 0
                      /\ on_screen(iso, viewport, tile_to_screen(iso, QInt(q[1]), QInt(q[2])))}}

\* TileMap::for_each_visible(viewport, callback): the sequences of callback
\* calls (x, y, tile, screen position) the call can make
for_each_visible(map, iso, viewport) ==
  {[i \in 1..Len(order) |->
      [x |-> order[i].x, y |-> order[i].y, tile |-> at(map, order[i].x, order[i].y),
       screen |-> order[i].screen]] :
     order \in sort_by_depth(visible_tiles(map, iso, viewport))}

\* ========================================================================
\* Scene, as a value: is_active_, scene_manager_, entities_.
\* `id` is the identity of the object (its address).
\* ========================================================================

\* Scene::Scene(name): is_active_ = false, scene_manager_ = nullptr
NewScene(id) ==
  [id |-> id, is_active |-> FALSE, scene_manager |-> FALSE,
   entities |-> NewEntityManager]

\* a null Scene* / an empty unique_ptr<Scene>
NullScene ==
  [id |-> NullPtr, is_active |-> FALSE, scene_manager |-> FALSE,
   entities |-> NewEntityManager]

\* faulty variant of Scene_update: the pending destroys are not flushed
Scene_update_no_flush(scene) == scene

\* Scene::update(dt): update_animators, then flush the pending destroys
Scene_update(scene) ==
  [scene EXCEPT !.entities = process_pending_destroys(scene.entities)]

\* the callback of render_sprites: the entity has a Transform and an
\* enabled SpriteRenderer
collects(e) ==
  /\ get_component(e, "Transform").ptr # NullPtr
  /\ get_component(e, "SpriteRenderer").ptr # NullPtr
  /\ get_component(e, "SpriteRenderer").enabled

\* the entries render_sprites collects, in the order of the for_each pass
collect_sprites(m) ==
  LET pass == SelectSeq(m.order, LAMBDA id : m.entities[id].active /\ collects(m.entities[id]))
  IN [i \in 1..Len(pass) |->
        [id |-> pass[i],
         layer |-> get_component(m.entities[pass[i]], "SpriteRenderer").value.layer,
         texture |-> get_component(m.entities[pass[i]], "SpriteRenderer").value.texture]]

\* std::sort by layer: the orders of the entries that ascend in layer
\* (entries of one layer come out in any order)
sort_by_layer(sprites) ==
  {[i \in 1..Len(sprites) |-> sprites[p[i]]] : p \in
     {q \in Perms(1..Len(sprites)) :
        \A i \in 1..(Len(sprites) - 1) : sprites[q[i]].layer <= sprites[q[i + 1]].layer}}

\* Scene::render(renderer) -> render_sprites: the draw_sprite sequences
\* the call can submit
render_sprites(scene, renderer) ==
  IF ~renderer THEN {<<>>}
  ELSE sort_by_layer(collect_sprites(scene.entities))

\* ========================================================================
\* SceneManager, as a value: scenes_, pending_op_, pending_scene_,
\* transition_callback_ (set or not), renderer_ (set or not).
\* ========================================================================

PendingOps == {"None", "Push", "Pop", "Replace", "Clear"}

NewSceneManager ==
  [scenes |-> <<>>, pending_op |-> "None", pending_scene |-> NullScene,
   transition_callback |-> FALSE, renderer |-> FALSE]

SceneIds(stk) == {stk[i].id : i \in 1..Len(stk)}

\* a lifecycle hook firing on `scene` while the stack is `stk`
HookEvent(kind, scene, stk) ==
  [kind |-> kind, scene |-> scene.id, active |-> scene.is_active,
   in_stack |-> scene.id \in SceneIds(stk)]

\* the transition callback called with (from, to) while the stack is `stk`;
\* a scene pointer is alive when it is null or still owned by the stack
TransitionEvent(from, to, stk) ==
  [kind |-> "transition", from |-> from, to |-> to,
   from_alive |-> (from = NullPtr \/ from \in SceneIds(stk)),
   to_alive |-> (to = NullPtr \/ to \in SceneIds(stk))]

\* SceneManager::initialize
initialize(sm) == [sm EXCEPT !.renderer = TRUE]

\* SceneManager::set_transition_callback
set_transition_callback(sm, set) == [sm EXCEPT !.transition_callback = set]

\* SceneManager::current_scene
current_scene(sm) == IF sm.scenes = <<>> THEN NullScene ELSE Last(sm.scenes)

\* SceneManager::scene_at(index), index counted from 0
scene_at(sm, index) ==
  IF index >= Len(sm.scenes) THEN NullScene ELSE sm.scenes[index + 1]

\* SceneManager::push_scene<T>(args); scene is the freshly made T
push_scene(sm, scene) ==
  [sm EXCEPT !.pending_scene = scene, !.pending_op = "Push"]

\* SceneManager::replace_scene<T>(args)
replace_scene(sm, scene) ==
  [sm EXCEPT !.pending_scene = scene, !.pending_op = "Replace"]

\* faulty variant of pop_scene: the top is removed at once
pop_scene_now(sm) ==
  [sm EXCEPT !.scenes = IF sm.scenes = <<>> THEN <<>> ELSE Front(sm.scenes)]

\* SceneManager::pop_scene
pop_scene(sm) == [sm EXCEPT !.pending_op = "Pop"]

\* faulty variant of clear_scenes: an earlier pending request is kept
clear_scenes_first_wins(sm) ==
  IF sm.pending_op = "None" THEN [sm EXCEPT !.pending_op = "Clear"] ELSE sm

\* SceneManager::clear_scenes
clear_scenes(sm) == [sm EXCEPT !.pending_op = "Clear"]

\* faulty variant of push_scene_internal: the old top is not paused
push_scene_internal_nopause(stk, scene, cb) ==
  LET new == [scene EXCEPT !.scene_manager = TRUE, !.is_active = TRUE]
      old == IF stk = <<>> THEN NullPtr ELSE Last(stk).id
      stk2 == Append(stk, new)
      log2 == IF cb THEN <<TransitionEvent(old, new.id, stk2)>> ELSE <<>>
  IN [scenes |-> stk2, log |-> log2 \o <<HookEvent("on_enter", new, stk2)>>]

\* SceneManager::push_scene_internal: the new stack and the events fired
push_scene_internal(stk, scene, cb) ==
  LET paused == IF stk # <<>> THEN [stk EXCEPT ![Len(stk)].is_active = FALSE] ELSE stk
      log1 == IF stk # <<>> THEN <<HookEvent("on_pause", Last(paused), paused)>> ELSE <<>>
      new == [scene EXCEPT !.scene_manager = TRUE, !.is_active = TRUE]
      old == IF paused = <<>> THEN NullPtr ELSE Last(paused).id
      stk2 == Append(paused, new)
      log2 == IF cb THEN <<TransitionEvent(old, new.id, stk2)>> ELSE <<>>
  IN [scenes |-> stk2,
      log |-> log1 \o log2 \o <<HookEvent("on_enter", new, stk2)>>]

\* faulty variant of replace_scene_internal: the old top is exited but not removed
replace_scene_internal_keep(stk, scene, cb) ==
  LET exited == IF stk # <<>> THEN [stk EXCEPT ![Len(stk)].is_active = FALSE] ELSE stk
      old == IF stk # <<>> THEN Last(exited).id ELSE NullPtr
      log1 == IF stk # <<>> THEN <<HookEvent("on_exit", Last(exited), exited)>> ELSE <<>>
      new == [scene EXCEPT !.scene_manager = TRUE, !.is_active = TRUE]
      stk2 == Append(exited, new)
      log2 == IF cb THEN <<TransitionEvent(old, new.id, stk2)>> ELSE <<>>
  IN [scenes |-> stk2,
      log |-> log1 \o log2 \o <<HookEvent("on_enter", new, stk2)>>]

\* SceneManager::replace_scene_internal
replace_scene_internal(stk, scene, cb) ==
  LET exited == IF stk # <<>> THEN [stk EXCEPT ![Len(stk)].is_active = FALSE] ELSE stk
      old == IF stk # <<>> THEN Last(exited).id ELSE NullPtr
      log1 == IF stk # <<>> THEN <<HookEvent("on_exit", Last(exited), exited)>> ELSE <<>>
      rest == IF stk # <<>> THEN Front(exited) ELSE stk
      new == [scene EXCEPT !.scene_manager = TRUE, !.is_active = TRUE]
      stk2 == Append(rest, new)
      log2 == IF cb THEN <<TransitionEvent(old, new.id, stk2)>> ELSE <<>>
  IN [scenes |-> stk2,
      log |-> log1 \o log2 \o <<HookEvent("on_enter", new, stk2)>>]

\* faulty variant of pop_internal: the uncovered scene is not resumed
pop_internal_noresume(stk, cb) ==
  IF stk = <<>> THEN [scenes |-> stk, log |-> <<>>]
  ELSE LET exited == [stk EXCEPT ![Len(stk)].is_active = FALSE]
       IN [scenes |-> Front(exited),
           log |-> <<HookEvent("on_exit", Last(exited), exited)>>]

\* SceneManager::process_pending, case Pop
pop_internal(stk, cb) ==
  IF stk = <<>> THEN [scenes |-> stk, log |-> <<>>]
  ELSE LET exited == [stk EXCEPT ![Len(stk)].is_active = FALSE]
           old == Last(exited)
           log1 == <<HookEvent("on_exit", old, exited)>>
           rest == Front(exited)
       IN IF rest = <<>> THEN [scenes |-> rest, log |-> log1]
          ELSE LET stk2 == [rest EXCEPT ![Len(rest)].is_active = TRUE]
                   new == Last(stk2)
                   log2 == <<HookEvent("on_resume", new, stk2)>>
                   log3 == IF cb THEN <<TransitionEvent(old.id, new.id, stk2)>> ELSE <<>>
               IN [scenes |-> stk2, log |-> log1 \o log2 \o log3]

\* faulty variant of clear_internal: only the top scene is exited
clear_internal_top_only(stk, log) ==
  IF stk = <<>> THEN [scenes |-> stk, log |-> log]
  ELSE LET exited == [stk EXCEPT ![Len(stk)].is_active = FALSE]
       IN [scenes |-> <<>>,
           log |-> Append(log, HookEvent("on_exit", Last(exited), exited))]

\* SceneManager::process_pending, case Clear
RECURSIVE clear_internal(_, _)
clear_internal(stk, log) ==
  IF stk = <<>> THEN [scenes |-> stk, log |-> log]
  ELSE LET exited == [stk EXCEPT ![Len(stk)].is_active = FALSE]
       IN clear_internal(Front(exited),
                         Append(log, HookEvent("on_exit", Last(exited), exited)))

\* the switch of SceneManager::process_pending
apply_pending(sm) ==
  CASE sm.pending_op = "Push" ->
         IF sm.pending_scene.id # NullPtr
         THEN push_scene_internal(sm.scenes, sm.pending_scene, sm.transition_callback)
         ELSE [scenes |-> sm.scenes, log |-> <<>>]
    [] sm.pending_op = "Pop" -> pop_internal(sm.scenes, sm.transition_callback)
    [] sm.pending_op = "Replace" ->
         IF sm.pending_scene.id # NullPtr
         THEN replace_scene_internal(sm.scenes, sm.pending_scene, sm.transition_callback)
         ELSE [scenes |-> sm.scenes, log |-> <<>>]
    [] sm.pending_op = "Clear" -> clear_internal(sm.scenes, <<>>)
    [] OTHER -> [scenes |-> sm.scenes, log |-> <<>>]

\* a transition request issued by user code (a scene or the application)
request(sm, req, scene) ==
  CASE req = "Push" -> push_scene(sm, scene)
    [] req = "Replace" -> replace_scene(sm, scene)
    [] req = "Pop" -> pop_scene(sm)
    [] req = "Clear" -> clear_scenes(sm)
    [] OTHER -> sm

\* faulty variant of process_pending: pending_op_ and pending_scene_ are
\* reset before the switch runs, so a request made by a hook stays pending
process_pending_resets_first(sm, hook_req, scene) ==
  LET r == apply_pending(sm)
      reset == [sm EXCEPT !.scenes = r.scenes, !.pending_op = "None", !.pending_scene = NullScene]
  IN [sm |-> IF r.log # <<>> THEN request(reset, hook_req, scene) ELSE reset,
      log |-> r.log]

\* SceneManager::process_pending.  hook_req is the request (or "None") that
\* a hook or the transition callback issues while it runs.
process_pending(sm, hook_req, scene) ==
  LET r == apply_pending(sm)
      moved == IF sm.pending_op \in {"Push", "Replace"}
               THEN [sm EXCEPT !.pending_scene = NullScene] ELSE sm
      applied == [moved EXCEPT !.scenes = r.scenes]
      hooked == IF r.log # <<>> THEN request(applied, hook_req, scene) ELSE applied
  IN [sm |-> [hooked EXCEPT !.pending_op = "None", !.pending_scene = NullScene],
      log |-> r.log]

\* faulty variant of update: every scene of the stack is updated
update_all(sm, req, scene) ==
  IF sm.scenes = <<>> THEN [sm |-> sm, log |-> <<>>]
  ELSE [sm |-> request([sm EXCEPT !.scenes = [i \in 1..Len(sm.scenes) |-> Scene_update(sm.scenes[i])]],
                       req, scene),
        log |-> [i \in 1..Len(sm.scenes) |-> [kind |-> "update", scene |-> sm.scenes[i].id]]]

\* SceneManager::update(dt).  req is the request (or "None") that the
\* running scene issues from its update.
update(sm, req, scene) ==
  LET top == current_scene(sm)
  IN IF top.id # NullPtr /\ top.is_active
     THEN LET updated == [sm EXCEPT !.scenes[Len(sm.scenes)] = Scene_update(top)]
          IN [sm |-> request(updated, req, scene),
              log |-> <<[kind |-> "update", scene |-> top.id]>>]
     ELSE [sm |-> sm, log |-> <<>>]

\* faulty variant of render: only the top scene is rendered
render_top_only(sm, req, scene) ==
  IF ~sm.renderer \/ sm.scenes = <<>> THEN [sm |-> sm, log |-> <<>>]
  ELSE [sm |-> request(sm, req, scene),
        log |-> <<[kind |-> "render", scene |-> Last(sm.scenes).id]>>]

\* SceneManager::render.  req is the request (or "None") that a scene
\* issues from its render.
render(sm, req, scene) ==
  IF ~sm.renderer THEN [sm |-> sm, log |-> <<>>]
  ELSE LET log == [i \in 1..Len(sm.scenes) |-> [kind |-> "render", scene |-> sm.scenes[i].id]]
       IN [sm |-> IF log # <<>> THEN request(sm, req, scene) ELSE sm,
           log |-> log]

\* SceneManager::render, what reaches the renderer: for each scene of the
\* stack, bottom first, the sprites its Scene::render submits
render_draws(sm) ==
  IF ~sm.renderer THEN {<<>>}
  ELSE {[i \in 1..Len(sm.scenes) |-> [scene |-> sm.scenes[i].id, sprites |-> pick[i]]] :
          pick \in {f \in [1..Len(sm.scenes) -> UNION {render_sprites(sm.scenes[j], TRUE) : j \in 1..Len(sm.scenes)}] :
                      \A i \in 1..Len(sm.scenes) : f[i] \in render_sprites(sm.scenes[i], TRUE)}}

\* ========================================================================
\* State
\* ========================================================================
VARIABLES
  sm,          \* the SceneManager
  log,         \* hooks, callbacks, update and render calls made by the last operation
  next_scene,  \* identity given to the next scene constructed
  last_req,    \* the last transition request issued, and whether it is flushed
  discarded,   \* scenes whose push/replace request was overwritten by a later request
  em,          \* a stand-alone EntityManager
  visited,     \* the visits of the last for_each pass
  created,     \* the ids create_entity returned, in order
  flushed,     \* the list the last process_pending_destroys ran on
  ent,         \* a stand-alone Entity object
  comp_log,    \* the component hooks the last operation fired
  ret,         \* the component kind the last operation named, the instance it returned
  next_addr,   \* address given to the next Entity object constructed
  scn,         \* a stand-alone Scene and its registry
  draws,       \* the sprites the last Scene::render submitted, in order
  animator,    \* a stand-alone Animator
  animations,  \* the animations of the sprite sheet the Animator can point to
  was_playing, \* is_playing() before the last operation
  call,        \* the last query made: its arguments and what it returned
  tilemap,     \* a stand-alone TileMap
  iso,         \* the static members of Isometric
  sprite_sheet, \* a stand-alone SpriteSheet: its texture and frames
  loop,        \* a GameLoop, its window, and where run() stands
  ring,        \* a RingBuffer<int, RingCapacity>
  pool,        \* an ObjectPool<T, PoolCapacity>
  last_op      \* the operation that produced this state

vars == <<sm, log, next_scene, last_req, discarded, em, visited, created, flushed,
          ent, comp_log, ret, next_addr, scn, draws, animator, animations, was_playing, call, tilemap, iso,
          sprite_sheet, loop, ring, pool, last_op>>
scene_vars == <<sm, log, next_scene, last_req, discarded>>
entity_vars == <<em, visited, created, flushed>>
component_vars == <<ent, comp_log, ret, next_addr>>
frame_vars == <<scn, draws>>
animator_vars == <<animator, animations, was_playing>>
tile_vars == <<tilemap, iso>>
core_vars == <<sprite_sheet, loop, ring, pool>>
extra_vars == <<call, tile_vars, core_vars>>
object_vars == <<component_vars, frame_vars, animator_vars, extra_vars>>

\* op, scene: the request; by: who issued it; overwrote: it replaced a
\* request that was still pending; state: "pending" until process_pending
NoRequest ==
  [op |-> "None", scene |-> NullPtr, by |-> "", overwrote |-> FALSE, state |-> "flushed"]

HasPending == last_req.state = "pending"

\* ids: the queued list; live: the queued ids that were in the registry
NothingFlushed == [ids |-> <<>>, live |-> {}]

\* no query made yet
NoCall == [op |-> "", args |-> <<>>, result |-> <<>>]

\* kind: the component kind the operation named; ptr: the instance returned
NothingReturned == [kind |-> "", ptr |-> NullPtr]

Init ==
  /\ sm = NewSceneManager
  /\ log = <<>>
  /\ next_scene = 1
  /\ last_req = NoRequest
  /\ discarded = {}
  /\ em = NewEntityManager
  /\ visited = <<>>
  /\ created = <<>>
  /\ flushed = NothingFlushed
  /\ ent = NewEntityRun(1, 1).entity
  /\ comp_log = NewEntityRun(1, 1).events
  /\ ret = NothingReturned
  /\ next_addr = 2
  /\ scn = NewScene(1)
  /\ draws = <<>>
  /\ animator = NewAnimator
  /\ animations = <<>>
  /\ was_playing = FALSE
  /\ call = NoCall
  /\ tilemap = NewTileMap
  /\ iso = NewIsometric
  /\ sprite_sheet = NewSpriteSheet
  /\ loop = NewGameLoop
  /\ ring = NewRingBuffer
  /\ pool = NewObjectPool
  /\ last_op = "init"

\* ------------------------------------------------------------------------
\* SceneManager operations
\* ------------------------------------------------------------------------

MakesScene(req) == req \in {"Push", "Replace"}

\* bookkeeping of a request issued by user code outside process_pending
NoteRequest(req, by) ==
  /\ MakesScene(req) => next_scene <= MaxScenes
  /\ next_scene' = IF MakesScene(req) THEN next_scene + 1 ELSE next_scene
  /\ last_req' = IF req = "None" THEN last_req
                 ELSE [op |-> req,
                       scene |-> IF MakesScene(req) THEN next_scene ELSE NullPtr,
                       by |-> by, overwrote |-> HasPending, state |-> "pending"]
  /\ discarded' = IF req # "None" /\ HasPending /\ MakesScene(last_req.op)
                  THEN discarded \cup {last_req.scene} ELSE discarded

Initialize ==
  /\ sm' = initialize(sm)
  /\ log' = <<>>
  /\ last_op' = "initialize"
  /\ UNCHANGED <<next_scene, last_req, discarded, entity_vars, object_vars>>

SetTransitionCallback ==
  \E set \in BOOLEAN :
    /\ sm' = set_transition_callback(sm, set)
    /\ log' = <<>>
    /\ last_op' = "set_transition_callback"
    /\ UNCHANGED <<next_scene, last_req, discarded, entity_vars, object_vars>>

PushScene ==
  /\ NoteRequest("Push", "app")
  /\ sm' = push_scene(sm, NewScene(next_scene))
  /\ log' = <<>>
  /\ last_op' = "push_scene"
  /\ UNCHANGED <<entity_vars, object_vars>>

ReplaceScene ==
  /\ NoteRequest("Replace", "app")
  /\ sm' = replace_scene(sm, NewScene(next_scene))
  /\ log' = <<>>
  /\ last_op' = "replace_scene"
  /\ UNCHANGED <<entity_vars, object_vars>>

PopScene ==
  /\ NoteRequest("Pop", "app")
  /\ sm' = pop_scene(sm)
  /\ log' = <<>>
  /\ last_op' = "pop_scene"
  /\ UNCHANGED <<entity_vars, object_vars>>

ClearScenes ==
  /\ NoteRequest("Clear", "app")
  /\ sm' = clear_scenes(sm)
  /\ log' = <<>>
  /\ last_op' = "clear_scenes"
  /\ UNCHANGED <<entity_vars, object_vars>>

Update ==
  \E req \in PendingOps :
    LET r == update(sm, req, NewScene(next_scene))
    IN /\ NoteRequest(IF r.log # <<>> THEN req ELSE "None", "update")
       /\ r.log = <<>> => req = "None"
       /\ sm' = r.sm
       /\ log' = r.log
       /\ last_op' = "update"
       /\ UNCHANGED <<entity_vars, object_vars>>

Render ==
  \E req \in PendingOps :
    LET r == render(sm, req, NewScene(next_scene))
    IN /\ NoteRequest(IF r.log # <<>> THEN req ELSE "None", "render")
       /\ r.log = <<>> => req = "None"
       /\ sm' = r.sm
       /\ log' = r.log
       /\ last_op' = "render"
       /\ UNCHANGED <<entity_vars, object_vars>>

ProcessPending ==
  \E hook_req \in PendingOps :
    LET r == process_pending(sm, hook_req, NewScene(next_scene))
        issued == r.log # <<>> /\ hook_req # "None"
    IN /\ r.log = <<>> => hook_req = "None"
       /\ (issued /\ MakesScene(hook_req)) => next_scene <= MaxScenes
       /\ next_scene' = IF issued /\ MakesScene(hook_req) THEN next_scene + 1 ELSE next_scene
       /\ last_req' = IF HasPending THEN [last_req EXCEPT !.state = "flushed"] ELSE NoRequest
       /\ discarded' = discarded
       /\ sm' = r.sm
       /\ log' = r.log
       /\ last_op' = "process_pending"
       /\ UNCHANGED <<entity_vars, object_vars>>

Next ==
  \/ Initialize
  \/ SetTransitionCallback
  \/ PushScene
  \/ ReplaceScene
  \/ PopScene
  \/ ClearScenes
  \/ Update
  \/ Render
  \/ ProcessPending

Spec == Init /\ [][Next]_vars

\* process_pending(), with the request a hook or the transition callback
\* made while it ran kept as the argument of the call
ProcessPendingHooked ==
  \E hook_req \in PendingOps :
    LET r == process_pending(sm, hook_req, NewScene(next_scene))
        issued == r.log # <<>> /\ hook_req # "None"
    IN /\ r.log = <<>> => hook_req = "None"
       /\ (issued /\ MakesScene(hook_req)) => next_scene <= MaxScenes
       /\ next_scene' = IF issued /\ MakesScene(hook_req) THEN next_scene + 1 ELSE next_scene
       /\ last_req' = IF HasPending THEN [last_req EXCEPT !.state = "flushed"] ELSE NoRequest
       /\ discarded' = discarded
       /\ sm' = r.sm
       /\ log' = r.log
       /\ call' = [op |-> "process_pending", args |-> <<hook_req>>, result |-> <<>>]
       /\ last_op' = "process_pending"
       /\ UNCHANGED <<entity_vars, component_vars, frame_vars, animator_vars, tile_vars, core_vars>>

NextHooks ==
  \/ SetTransitionCallback
  \/ PushScene
  \/ ReplaceScene
  \/ PopScene
  \/ ClearScenes
  \/ ProcessPendingHooked

SpecHooks == Init /\ [][NextHooks]_vars

\* ------------------------------------------------------------------------
\* A stack of scenes with entities
\* ------------------------------------------------------------------------

rest_of_stack == <<entity_vars, component_vars, animator_vars, scn, call, tile_vars, core_vars>>

\* sm.push_scene<T>()
StackPush ==
  /\ next_scene <= MaxStacked
  /\ NoteRequest("Push", "app")
  /\ sm' = push_scene(sm, NewScene(next_scene))
  /\ log' = <<>>
  /\ draws' = <<>>
  /\ last_op' = "push_scene"
  /\ UNCHANGED rest_of_stack

\* sm.pop_scene()
StackPop ==
  /\ NoteRequest("Pop", "app")
  /\ sm' = pop_scene(sm)
  /\ log' = <<>>
  /\ draws' = <<>>
  /\ last_op' = "pop_scene"
  /\ UNCHANGED rest_of_stack

\* sm.process_pending(), the hooks making no request
StackProcessPending ==
  /\ sm' = process_pending(sm, "None", NullScene).sm
  /\ log' = process_pending(sm, "None", NullScene).log
  /\ last_req' = IF HasPending THEN [last_req EXCEPT !.state = "flushed"] ELSE NoRequest
  /\ draws' = <<>>
  /\ last_op' = "process_pending"
  /\ UNCHANGED <<next_scene, discarded, rest_of_stack>>

\* e = scene->create_entity(); e->add_component<SpriteRenderer>(), on any
\* scene of the stack that has no entity
StackSpawn ==
  \E i \in 1..Len(sm.scenes) : \E ord \in InsertOrders(sm.scenes[i].entities, sm.scenes[i].entities.next_id) :
    /\ sm.scenes[i].entities.next_id <= MaxEntities
    /\ DOMAIN sm.scenes[i].entities.entities = {}
    /\ LET id == create_entity_id(sm.scenes[i].entities)
           made == create_entity(sm.scenes[i].entities, "", ord)
           sprite == [layer |-> 0, texture |-> INVALID_TEXTURE]
       IN sm' = [sm EXCEPT !.scenes[i].entities =
                   [made EXCEPT !.entities[id] = add_component(@, "SpriteRenderer", sprite)]]
    /\ log' = <<>>
    /\ draws' = <<>>
    /\ last_op' = "create_entity"
    /\ UNCHANGED <<next_scene, last_req, discarded, rest_of_stack>>

\* scene->destroy_entity(id) on any scene of the stack
StackDestroy ==
  \E i \in 1..Len(sm.scenes) : \E id \in DOMAIN sm.scenes[i].entities.entities :
    /\ Len(sm.scenes[i].entities.pending_destroy) < MaxPending
    /\ sm' = [sm EXCEPT !.scenes[i].entities = destroy_entity(@, id)]
    /\ log' = <<>>
    /\ draws' = <<>>
    /\ last_op' = "destroy_entity"
    /\ UNCHANGED <<next_scene, last_req, discarded, rest_of_stack>>

\* sm.update(dt), the scene making no request
StackUpdate ==
  /\ sm' = update(sm, "None", NullScene).sm
  /\ log' = update(sm, "None", NullScene).log
  /\ draws' = <<>>
  /\ last_op' = "update"
  /\ UNCHANGED <<next_scene, last_req, discarded, rest_of_stack>>

\* sm.render()
StackRender ==
  \E submitted \in render_draws(sm) :
    /\ sm' = render(sm, "None", NullScene).sm
    /\ log' = render(sm, "None", NullScene).log
    /\ draws' = submitted
    /\ last_op' = "render"
    /\ UNCHANGED <<next_scene, last_req, discarded, rest_of_stack>>

NextStack ==
  \/ Initialize
  \/ StackPush
  \/ StackPop
  \/ StackProcessPending
  \/ StackSpawn
  \/ StackDestroy
  \/ StackUpdate
  \/ StackRender

SpecStack == Init /\ [][NextStack]_vars

\* ------------------------------------------------------------------------
\* EntityManager operations
\* ------------------------------------------------------------------------

EntityIds == 1..MaxEntities

CreateEntity ==
  \E name \in Names : \E ord \in InsertOrders(em, em.next_id) :
    /\ em.next_id <= MaxEntities
    /\ em' = create_entity(em, name, ord)
    /\ created' = Append(created, create_entity_id(em))
    /\ flushed' = NothingFlushed
    /\ visited' = <<>>
    /\ last_op' = "create_entity"
    /\ UNCHANGED <<scene_vars, object_vars>>

DestroyEntity ==
  \E id \in EntityIds :
    /\ Len(em.pending_destroy) < MaxPending
    /\ em' = destroy_entity(em, id)
    /\ flushed' = NothingFlushed
    /\ visited' = <<>>
    /\ UNCHANGED created
    /\ last_op' = "destroy_entity"
    /\ UNCHANGED <<scene_vars, object_vars>>

ProcessPendingDestroys ==
  /\ em' = process_pending_destroys(em)
  /\ flushed' = [ids |-> em.pending_destroy,
                 live |-> Range(em.pending_destroy) \cap DOMAIN em.entities]
  /\ visited' = <<>>
  /\ UNCHANGED created
  /\ last_op' = "process_pending_destroys"
  /\ UNCHANGED <<scene_vars, object_vars>>

Clear ==
  /\ em' = clear(em)
  /\ flushed' = NothingFlushed
  /\ visited' = <<>>
  /\ UNCHANGED created
  /\ last_op' = "clear"
  /\ UNCHANGED <<scene_vars, object_vars>>

SetActive ==
  \E id \in DOMAIN em.entities : \E b \in BOOLEAN :
    /\ em' = [em EXCEPT !.entities[id] = set_active(@, b)]
    /\ flushed' = NothingFlushed
    /\ visited' = <<>>
    /\ UNCHANGED created
    /\ last_op' = "set_active"
    /\ UNCHANGED <<scene_vars, object_vars>>

AddTag ==
  \E id \in DOMAIN em.entities : \E value \in TagValues :
    /\ em' = [em EXCEPT !.entities[id] = add_component(@, "Tag", value)]
    /\ flushed' = NothingFlushed
    /\ visited' = <<>>
    /\ UNCHANGED created
    /\ last_op' = "add_component"
    /\ UNCHANGED <<scene_vars, object_vars>>

\* the callbacks of a for_each pass: which ids each visit destroys (one
\* visit, of any entity, destroys that entity or another one)
Callbacks ==
  LET ids == DOMAIN em.entities
      none == [i \in ids |-> <<>>]
  IN {none} \cup {[none EXCEPT ![v] = <<d>>] : v \in ids, d \in ids}

ForEach ==
  \E cb \in Callbacks :
    LET r == for_each(em, cb)
    IN /\ Len(r.m.pending_destroy) <= MaxPending
       /\ em' = r.m
       /\ flushed' = NothingFlushed
       /\ visited' = r.visited
       /\ UNCHANGED created
       /\ last_op' = "for_each"
       /\ UNCHANGED <<scene_vars, object_vars>>

NextEntity ==
  \/ CreateEntity
  \/ DestroyEntity
  \/ ProcessPendingDestroys
  \/ Clear
  \/ SetActive
  \/ AddTag
  \/ ForEach

SpecEntity == Init /\ [][NextEntity]_vars

\* ------------------------------------------------------------------------
\* Queries over the registry
\* ------------------------------------------------------------------------

\* create_entity() with the default name
CreateUnnamed ==
  \E ord \in InsertOrders(em, em.next_id) :
    /\ em.next_id <= MaxEntities
    /\ em' = create_entity(em, "", ord)
    /\ created' = Append(created, create_entity_id(em))
    /\ flushed' = NothingFlushed
    /\ visited' = <<>>
    /\ last_op' = "create_entity"
    /\ UNCHANGED <<scene_vars, object_vars>>

\* get_component<Tag>()->set_enabled(b) on an entity of the registry
SetTagEnabled ==
  \E id \in DOMAIN em.entities : \E b \in BOOLEAN :
    /\ has_component(em.entities[id], "Tag")
    /\ em' = [em EXCEPT !.entities[id].components =
                [i \in 1..Len(@) |-> IF @[i].kind = "Tag" THEN set_enabled(@[i], b) ELSE @[i]]]
    /\ flushed' = NothingFlushed
    /\ visited' = <<>>
    /\ UNCHANGED created
    /\ last_op' = "set_enabled"
    /\ UNCHANGED <<scene_vars, object_vars>>

\* for_each<Tag>(callback)
ForEachTag ==
  \E cb \in Callbacks :
    LET r == for_each_kind(em, "Tag", cb)
    IN /\ Len(r.m.pending_destroy) <= MaxPending
       /\ em' = r.m
       /\ flushed' = NothingFlushed
       /\ visited' = r.visited
       /\ UNCHANGED created
       /\ last_op' = "for_each_kind"
       /\ UNCHANGED <<scene_vars, object_vars>>

NextQuery ==
  \/ CreateUnnamed
  \/ DestroyEntity
  \/ ProcessPendingDestroys
  \/ SetActive
  \/ AddTag
  \/ SetTagEnabled
  \/ ForEach
  \/ ForEachTag

SpecQuery == Init /\ [][NextQuery]_vars

\* ------------------------------------------------------------------------
\* One Scene through its frames: entities, Scene::update, Scene::render
\* ------------------------------------------------------------------------

Layers == {0, 1}

SceneCreateEntity ==
  \E ord \in InsertOrders(scn.entities, scn.entities.next_id) :
    /\ scn.entities.next_id <= MaxEntities
    /\ scn' = [scn EXCEPT !.entities = create_entity(@, "", ord)]
    /\ last_op' = "create_entity"
    /\ draws' = <<>>
    /\ call' = NoCall
    /\ flushed' = NothingFlushed
    /\ UNCHANGED <<core_vars, tile_vars, em, visited, created, scene_vars, component_vars, animator_vars>>

\* add_component<SpriteRenderer>() and the layer given to it
SceneAddSprite ==
  \E id \in DOMAIN scn.entities.entities : \E layer \in Layers :
    /\ ~has_component(scn.entities.entities[id], "SpriteRenderer")
    /\ scn' = [scn EXCEPT !.entities.entities[id] =
                 add_component(@, "SpriteRenderer", [layer |-> layer, texture |-> INVALID_TEXTURE])]
    /\ last_op' = "add_component"
    /\ draws' = <<>>
    /\ call' = NoCall
    /\ flushed' = NothingFlushed
    /\ UNCHANGED <<core_vars, tile_vars, em, visited, created, scene_vars, component_vars, animator_vars>>

\* get_component<SpriteRenderer>()->set_enabled(b)
SceneSetSpriteEnabled ==
  \E id \in DOMAIN scn.entities.entities : \E b \in BOOLEAN :
    /\ has_component(scn.entities.entities[id], "SpriteRenderer")
    /\ scn' = [scn EXCEPT !.entities.entities[id].components =
                 [i \in 1..Len(@) |->
                    IF @[i].kind = "SpriteRenderer" THEN set_enabled(@[i], b) ELSE @[i]]]
    /\ last_op' = "set_enabled"
    /\ draws' = <<>>
    /\ call' = NoCall
    /\ flushed' = NothingFlushed
    /\ UNCHANGED <<core_vars, tile_vars, em, visited, created, scene_vars, component_vars, animator_vars>>

SceneSetActive ==
  \E id \in DOMAIN scn.entities.entities : \E b \in BOOLEAN :
    /\ scn' = [scn EXCEPT !.entities.entities[id] = set_active(@, b)]
    /\ last_op' = "set_active"
    /\ draws' = <<>>
    /\ call' = NoCall
    /\ flushed' = NothingFlushed
    /\ UNCHANGED <<core_vars, tile_vars, em, visited, created, scene_vars, component_vars, animator_vars>>

SceneDestroyEntity ==
  \E id \in EntityIds :
    /\ Len(scn.entities.pending_destroy) < MaxPending
    /\ scn' = [scn EXCEPT !.entities = destroy_entity(@, id)]
    /\ last_op' = "destroy_entity"
    /\ draws' = <<>>
    /\ call' = NoCall
    /\ flushed' = NothingFlushed
    /\ UNCHANGED <<core_vars, tile_vars, em, visited, created, scene_vars, component_vars, animator_vars>>

\* Scene::update(dt)
SceneUpdate ==
  /\ scn' = Scene_update(scn)
  /\ flushed' = [ids |-> scn.entities.pending_destroy,
                 live |-> Range(scn.entities.pending_destroy) \cap DOMAIN scn.entities.entities]
  /\ last_op' = "Scene_update"
  /\ draws' = <<>>
  /\ call' = NoCall
  /\ UNCHANGED <<core_vars, tile_vars, em, visited, created, scene_vars, component_vars, animator_vars>>

\* Scene::render(renderer)
SceneRender ==
  \E renderer \in BOOLEAN : \E submitted \in render_sprites(scn, renderer) :
    /\ draws' = submitted
    /\ call' = [op |-> "Scene_render", args |-> <<renderer>>, result |-> <<>>]
    /\ last_op' = "Scene_render"
    /\ UNCHANGED <<core_vars, tile_vars, scn, flushed, em, visited, created, scene_vars, component_vars, animator_vars>>

NextFrame ==
  \/ SceneCreateEntity
  \/ SceneAddSprite
  \/ SceneSetSpriteEnabled
  \/ SceneSetActive
  \/ SceneDestroyEntity
  \/ SceneUpdate
  \/ SceneRender

SpecFrame == Init /\ [][NextFrame]_vars

\* ------------------------------------------------------------------------
\* What Scene::render draws
\* ------------------------------------------------------------------------

\* transform()->set_enabled(b)
SceneSetTransformEnabled ==
  \E id \in DOMAIN scn.entities.entities : \E b \in BOOLEAN :
    /\ has_component(scn.entities.entities[id], "Transform")
    /\ scn' = [scn EXCEPT !.entities.entities[id].components =
                 [i \in 1..Len(@) |->
                    IF @[i].kind = "Transform" THEN set_enabled(@[i], b) ELSE @[i]]]
    /\ last_op' = "set_enabled"
    /\ draws' = <<>>
    /\ call' = NoCall
    /\ flushed' = NothingFlushed
    /\ UNCHANGED <<core_vars, tile_vars, em, visited, created, scene_vars, component_vars, animator_vars>>

\* remove_component<Transform>()
SceneRemoveTransform ==
  \E id \in DOMAIN scn.entities.entities :
    /\ scn' = [scn EXCEPT !.entities.entities[id] = remove_component(@, "Transform")]
    /\ last_op' = "remove_component"
    /\ draws' = <<>>
    /\ call' = NoCall
    /\ flushed' = NothingFlushed
    /\ UNCHANGED <<core_vars, tile_vars, em, visited, created, scene_vars, component_vars, animator_vars>>

\* get_component<SpriteRenderer>()->region = TextureRegion(texture)
SceneSetTexture ==
  \E id \in DOMAIN scn.entities.entities : \E texture \in {INVALID_TEXTURE, 1} :
    /\ has_component(scn.entities.entities[id], "SpriteRenderer")
    /\ scn' = [scn EXCEPT !.entities.entities[id].components =
                 [i \in 1..Len(@) |->
                    IF @[i].kind = "SpriteRenderer"
                    THEN [@[i] EXCEPT !.value.texture = texture] ELSE @[i]]]
    /\ last_op' = "set_region"
    /\ draws' = <<>>
    /\ call' = NoCall
    /\ flushed' = NothingFlushed
    /\ UNCHANGED <<core_vars, tile_vars, em, visited, created, scene_vars, component_vars, animator_vars>>

NextRender ==
  \/ SceneCreateEntity
  \/ SceneAddSprite
  \/ SceneSetSpriteEnabled
  \/ SceneSetTransformEnabled
  \/ SceneRemoveTransform
  \/ SceneSetTexture
  \/ SceneSetActive
  \/ SceneRender

SpecRender == Init /\ [][NextRender]_vars

\* ------------------------------------------------------------------------
\* One Animator and its sprite sheet
\* ------------------------------------------------------------------------

AnimationNames == {"anim"}
PlayNames == {"anim", "none"}
FrameDurations == {0, 1, 2}
rest_of_animator == <<scene_vars, entity_vars, component_vars, frame_vars, extra_vars>>

\* sheet.define_animation(name, 0, end_frame, frame_duration, looping)
DefineAnimation ==
  \E name \in AnimationNames : \E end_frame \in -1..MaxFrames :
    \E frame_duration \in FrameDurations : \E looping \in BOOLEAN :
      /\ animations' = define_animation(animations, MaxFrames, name, 0, end_frame,
                                        frame_duration, looping)
      /\ was_playing' = animator.playing
      /\ last_op' = "define_animation"
      /\ UNCHANGED <<animator, rest_of_animator>>

SetSpriteSheet ==
  \E sheet \in BOOLEAN :
    /\ animator' = set_sprite_sheet(animator, sheet)
    /\ was_playing' = animator.playing
    /\ last_op' = "set_sprite_sheet"
    /\ UNCHANGED <<animations, rest_of_animator>>

AnimatorPlay ==
  \E name \in PlayNames : \E force \in BOOLEAN :
    /\ animator' = Animator_play(animator, name, force)
    /\ was_playing' = animator.playing
    /\ last_op' = "Animator_play"
    /\ UNCHANGED <<animations, rest_of_animator>>

AnimatorUpdate ==
  \E dt \in 0..MaxDt :
    /\ Animator_update(animator, animations, dt).elapsed <= MaxElapsed
    /\ animator' = Animator_update(animator, animations, dt)
    /\ was_playing' = animator.playing
    /\ last_op' = "Animator_update"
    /\ UNCHANGED <<animations, rest_of_animator>>

AnimatorPause ==
  /\ animator' = Animator_pause(animator)
  /\ was_playing' = animator.playing
  /\ last_op' = "Animator_pause"
  /\ UNCHANGED <<animations, rest_of_animator>>

AnimatorResume ==
  /\ animator' = Animator_resume(animator)
  /\ was_playing' = animator.playing
  /\ last_op' = "Animator_resume"
  /\ UNCHANGED <<animations, rest_of_animator>>

AnimatorStop ==
  /\ animator' = Animator_stop(animator)
  /\ was_playing' = animator.playing
  /\ last_op' = "Animator_stop"
  /\ UNCHANGED <<animations, rest_of_animator>>

\* animator.speed = speed
SetSpeed ==
  \E speed \in {1, 2} :
    /\ animator' = [animator EXCEPT !.speed = speed]
    /\ was_playing' = animator.playing
    /\ last_op' = "set_speed"
    /\ UNCHANGED <<animations, rest_of_animator>>

NextAnimator ==
  \/ DefineAnimation
  \/ SetSpriteSheet
  \/ AnimatorPlay
  \/ AnimatorUpdate
  \/ AnimatorPause
  \/ AnimatorResume
  \/ AnimatorStop
  \/ SetSpeed

SpecAnimator == Init /\ [][NextAnimator]_vars

\* ------------------------------------------------------------------------
\* Queries on the sprite sheet
\* ------------------------------------------------------------------------

\* sheet.animation_frame_index(name, time)
FrameIndexAt ==
  \E name \in PlayNames : \E time \in (0 - MaxElapsed)..MaxElapsed :
    /\ call' = [op |-> "animation_frame_index", args |-> <<name, time>>,
                result |-> animation_frame_index(animations, name, time)]
    /\ last_op' = "animation_frame_index"
    /\ UNCHANGED <<core_vars, tile_vars, scene_vars, entity_vars, component_vars, frame_vars, animator_vars>>

NextSheet ==
  \/ DefineAnimation
  \/ FrameIndexAt

SpecSheet == Init /\ [][NextSheet]_vars

\* ------------------------------------------------------------------------
\* Frames of the sprite sheet and the animations defined over them
\* ------------------------------------------------------------------------

rest_of_sheet == <<tile_vars, scene_vars, entity_vars, component_vars, frame_vars, animator, was_playing, loop, ring, pool>>

FrameNames == {"a", "b"}
\* frame names handed to define_animation: defined ones, a grid name, an unknown one
AskedNames == FrameNames \cup {"frame_0", "zz"}
NameLists == {<<>>} \cup {<<n>> : n \in AskedNames} \cup {<<n, m>> : n \in AskedNames, m \in AskedNames}

\* sheet.set_texture(texture, w, h)
SheetSetTexture ==
  \E texture \in {INVALID_TEXTURE, 1} :
    /\ sprite_sheet' = set_texture(sprite_sheet, texture)
    /\ call' = NoCall
    /\ last_op' = "set_texture"
    /\ UNCHANGED <<animations, rest_of_sheet>>

\* sheet.define_frame(name, x, y, w, h)
SheetDefineFrame ==
  \E name \in FrameNames :
    /\ Len(sprite_sheet.frames) < MaxFrames
    /\ sprite_sheet' = define_frame(sprite_sheet, name)
    /\ call' = NoCall
    /\ last_op' = "define_frame"
    /\ UNCHANGED <<animations, rest_of_sheet>>

\* sheet.define_grid(w, h, 1, rows)
SheetDefineGrid ==
  \E rows \in 0..MaxFrames :
    /\ sprite_sheet' = define_grid(sprite_sheet, 1, rows)
    /\ call' = NoCall
    /\ last_op' = "define_grid"
    /\ UNCHANGED <<animations, rest_of_sheet>>

\* sheet.define_animation(name, start_frame, end_frame, 1, true)
DefineAnimationRange ==
  \E name \in AnimationNames : \E start_frame \in -1..1 : \E end_frame \in -1..MaxFrames :
    /\ animations' = define_animation(animations, Len(sprite_sheet.frames), name, start_frame, end_frame, 1, TRUE)
    /\ call' = [op |-> "define_animation", args |-> <<name, start_frame, end_frame>>, result |-> <<>>]
    /\ last_op' = "define_animation"
    /\ UNCHANGED <<sprite_sheet, rest_of_sheet>>

\* sheet.define_animation(name, frame_names, 1, true)
DefineAnimationNames ==
  \E name \in AnimationNames : \E frame_names \in NameLists :
    /\ animations' = define_animation_names(animations, sprite_sheet, name, frame_names, 1, TRUE)
    /\ call' = [op |-> "define_animation_names", args |-> <<name, frame_names>>, result |-> <<>>]
    /\ last_op' = "define_animation_names"
    /\ UNCHANGED <<sprite_sheet, rest_of_sheet>>

NextFrames ==
  \/ SheetSetTexture
  \/ SheetDefineFrame
  \/ SheetDefineGrid
  \/ DefineAnimationRange
  \/ DefineAnimationNames

SpecFrames == Init /\ [][NextFrames]_vars

\* ------------------------------------------------------------------------
\* GameLoop operations
\* ------------------------------------------------------------------------

program_vars == <<tile_vars, scene_vars, entity_vars, component_vars, frame_vars, animator_vars>>
rest_of_loop == <<call, program_vars, sprite_sheet, ring, pool>>

\* loop.set_target_fps(fps), before run()
LoopSetTargetFps ==
  \E fps \in {0, 30, 60} :
    /\ loop.pc = "idle"
    /\ loop' = set_target_fps(loop, fps)
    /\ last_op' = "set_target_fps"
    /\ UNCHANGED rest_of_loop

\* loop.set_max_frame_skip(frames), before run()
LoopSetMaxFrameSkip ==
  \E frames \in 0..MaxSkip :
    /\ loop.pc = "idle"
    /\ loop' = set_max_frame_skip(loop, frames)
    /\ last_op' = "set_max_frame_skip"
    /\ UNCHANGED rest_of_loop

\* loop.set_update_callback, loop.set_render_callback, before run(): a
\* callback or an empty std::function
LoopSetCallbacks ==
  \E update_cb \in BOOLEAN : \E render_cb \in BOOLEAN :
    /\ loop.pc = "idle"
    /\ loop' = [loop EXCEPT !.update_callback = update_cb, !.render_callback = render_cb]
    /\ last_op' = "set_callbacks"
    /\ UNCHANGED rest_of_loop

\* loop.run() is called
LoopRun ==
  /\ loop.pc = "idle"
  /\ loop' = run_enter(loop)
  /\ last_op' = "run"
  /\ UNCHANGED rest_of_loop

\* the condition of the outer while is evaluated
LoopTest ==
  /\ loop.pc = "test"
  /\ loop' = run_test(loop)
  /\ last_op' = "run_test"
  /\ UNCHANGED rest_of_loop

\* poll_events, the window check, the frame time
LoopPoll ==
  \E still_open \in BOOLEAN : \E frame_dt \in 0..MaxFrameTicks :
    /\ loop.pc = "poll"
    /\ loop' = run_poll(loop, still_open, frame_dt)
    /\ last_op' = "run_poll"
    /\ UNCHANGED rest_of_loop

\* one pass of the inner while
LoopUpdate ==
  \E stops \in BOOLEAN : \E closes \in BOOLEAN :
    /\ loop.pc = "updates"
    /\ loop' = run_update(loop, stops, closes)
    /\ last_op' = "run_update"
    /\ UNCHANGED rest_of_loop

\* the render callback
LoopRender ==
  \E stops \in BOOLEAN :
    /\ loop.pc = "render"
    /\ loop' = run_render(loop, stops)
    /\ last_op' = "run_render"
    /\ UNCHANGED rest_of_loop

NextLoop ==
  \/ LoopSetTargetFps
  \/ LoopSetMaxFrameSkip
  \/ LoopSetCallbacks
  \/ LoopRun
  \/ LoopTest
  \/ LoopPoll
  \/ LoopUpdate
  \/ LoopRender

SpecLoop == Init /\ [][NextLoop]_vars

\* ------------------------------------------------------------------------
\* RingBuffer operations
\* ------------------------------------------------------------------------

rest_of_ring == <<program_vars, sprite_sheet, loop, pool>>

\* the values pushed
RingValues == {1, 2, 3}

\* ring.push(value)
RingPush ==
  \E value \in RingValues :
    /\ ring' = ring_push(ring, value).ring
    /\ call' = [op |-> "push", args |-> <<value>>, result |-> ring_push(ring, value).ret]
    /\ last_op' = "push"
    /\ UNCHANGED rest_of_ring

\* ring.push_overwrite(value), which returns nothing: the call records
\* whether the buffer was full when it was made
RingPushOverwrite ==
  \E value \in RingValues :
    /\ ring' = ring_push_overwrite(ring, value)
    /\ call' = [op |-> "push_overwrite", args |-> <<value>>, result |-> <<>>, on_full |-> ring_full(ring)]
    /\ last_op' = "push_overwrite"
    /\ UNCHANGED rest_of_ring

\* ring.pop()
RingPop ==
  /\ ring' = ring_pop(ring).ring
  /\ call' = [op |-> "pop", args |-> <<>>, result |-> ring_pop(ring).ret]
  /\ last_op' = "pop"
  /\ UNCHANGED rest_of_ring

\* ring.clear()
RingClear ==
  /\ ring' = ring_clear(ring)
  /\ call' = [op |-> "clear", args |-> <<>>, result |-> <<>>]
  /\ last_op' = "clear"
  /\ UNCHANGED rest_of_ring

NextRing ==
  \/ RingPush
  \/ RingPushOverwrite
  \/ RingPop
  \/ RingClear

SpecRing == Init /\ [][NextRing]_vars

\* ------------------------------------------------------------------------
\* ObjectPool operations
\* ------------------------------------------------------------------------

rest_of_pool == <<program_vars, sprite_sheet, loop, ring>>

\* the pointers handed to release: null, every slot, one outside the pool
ReleasedPtrs == 0..(PoolCapacity + 1)

\* pool.acquire()
PoolAcquire ==
  /\ pool' = acquire(pool).pool
  /\ call' = [op |-> "acquire", args |-> <<>>, result |-> acquire(pool).ret]
  /\ last_op' = "acquire"
  /\ UNCHANGED rest_of_pool

\* pool.release(obj); the exception, if any, is caught by the caller
PoolRelease ==
  \E obj \in ReleasedPtrs :
    /\ pool' = release(pool, obj).pool
    /\ call' = [op |-> "release", args |-> <<obj>>, result |-> release(pool, obj).thrown]
    /\ last_op' = "release"
    /\ UNCHANGED rest_of_pool

NextPool ==
  \/ PoolAcquire
  \/ PoolRelease

SpecPool == Init /\ [][NextPool]_vars

\* ------------------------------------------------------------------------
\* Isometric and TileMap operations
\* ------------------------------------------------------------------------

rest_of_tiles == <<scene_vars, entity_vars, component_vars, frame_vars, animator_vars, core_vars>>

\* tile sizes handed to set_tile_size: none is zero in either direction
TileSizes == {<<64, 32>>, <<-3, 5>>}
Cameras == {<<0, 0>>, <<32, -7>>, <<64, 64>>}
\* no tile, a ground tile, a raised tile
GroundTile == [tile_id |-> 1, height |-> 0, flags |-> 0]
TileValues == {EmptyTile, GroundTile, [tile_id |-> 1, height |-> 1, flags |-> 1]}
\* coordinates handed to at(): inside the map and just outside on either side
AtCoords == {-1, 0, MaxMapWidth}
\* the heights a map is resized to
MapHeights == 0..3
\* coordinates of the tiles set one by one
SetCoords == {0, 1}
Viewports ==
  {[x |-> 0, y |-> 0, width |-> 256, height |-> 256],
   [x |-> 100, y |-> 100, width |-> 10, height |-> 10],
   [x |-> -1000, y |-> 0, width |-> 10, height |-> 10]}
\* tile coordinates and screen points handed to the conversions
TilePoints == {QInt(-1), QInt(0), Q(1, 2), QInt(2)}
ScreenPoints == {QInt(-5), QInt(0), Q(1, 3), QInt(16)}

\* the point the last call of op returned, to be handed on
PointReturned(op) == IF call.op = op THEN {<<call.result.x, call.result.y>>} ELSE {}

\* Isometric::set_tile_size
SetTileSize ==
  \E size \in TileSizes :
    /\ iso' = [iso EXCEPT !.tile_width = size[1], !.tile_height = size[2]]
    /\ call' = NoCall
    /\ last_op' = "set_tile_size"
    /\ UNCHANGED <<tilemap, rest_of_tiles>>

\* Isometric::set_camera
SetCamera ==
  \E camera \in Cameras :
    /\ iso' = [iso EXCEPT !.camera_x = camera[1], !.camera_y = camera[2]]
    /\ call' = NoCall
    /\ last_op' = "set_camera"
    /\ UNCHANGED <<tilemap, rest_of_tiles>>

\* Isometric::tile_to_screen of a tile position, or of the position the
\* last screen_to_tile returned
TileToScreen ==
  \E point \in (TilePoints \X TilePoints) \cup PointReturned("screen_to_tile") :
    /\ call' = [op |-> "tile_to_screen", args |-> point,
                result |-> tile_to_screen(iso, point[1], point[2])]
    /\ last_op' = "tile_to_screen"
    /\ UNCHANGED <<core_vars, tile_vars, rest_of_tiles>>

\* Isometric::screen_to_tile of a screen point, or of the point the last
\* tile_to_screen returned
ScreenToTile ==
  \E point \in (ScreenPoints \X ScreenPoints) \cup PointReturned("tile_to_screen") :
    /\ call' = [op |-> "screen_to_tile", args |-> point,
                result |-> screen_to_tile(iso, point[1], point[2])]
    /\ last_op' = "screen_to_tile"
    /\ UNCHANGED <<core_vars, tile_vars, rest_of_tiles>>

NextProjection ==
  \/ SetTileSize
  \/ SetCamera
  \/ TileToScreen
  \/ ScreenToTile

SpecProjection == Init /\ [][NextProjection]_vars

\* TileMap::resize
TileResize ==
  \E width \in 0..MaxMapWidth : \E height \in MapHeights :
    /\ tilemap' = resize(tilemap, width, height)
    /\ call' = NoCall
    /\ last_op' = "resize"
    /\ UNCHANGED <<iso, rest_of_tiles>>

\* TileMap::fill
TileFill ==
  \E tile \in TileValues :
    /\ tilemap' = fill(tilemap, tile)
    /\ call' = NoCall
    /\ last_op' = "fill"
    /\ UNCHANGED <<iso, rest_of_tiles>>

\* map.at(x, y) = tile, for a position of the map
TileSet ==
  \E x \in SetCoords : \E y \in SetCoords : \E tile \in TileValues :
    /\ in_bounds(tilemap, x, y)
    /\ tilemap' = assign_at(tilemap, x, y, tile)
    /\ call' = NoCall
    /\ last_op' = "set_tile"
    /\ UNCHANGED <<iso, rest_of_tiles>>

\* TileMap::for_each_visible(viewport, callback)
ForEachVisible ==
  \E viewport \in Viewports : \E delivered \in for_each_visible(tilemap, iso, viewport) :
    /\ call' = [op |-> "for_each_visible", args |-> <<viewport>>, result |-> delivered]
    /\ last_op' = "for_each_visible"
    /\ UNCHANGED <<core_vars, tile_vars, rest_of_tiles>>

NextTileMap ==
  \/ SetTileSize
  \/ SetCamera
  \/ TileResize
  \/ TileFill
  \/ TileSet
  \/ ForEachVisible

SpecTileMap == Init /\ [][NextTileMap]_vars

\* map.at(x, y) = tile, for any position
TileAssign ==
  \E x \in AtCoords : \E y \in AtCoords : \E tile \in TileValues :
    /\ tilemap' = assign_at(tilemap, x, y, tile)
    /\ call' = [op |-> "assign_at", args |-> <<x, y>>, result |-> tile]
    /\ last_op' = "assign_at"
    /\ UNCHANGED <<iso, rest_of_tiles>>

\* TileMap::at(x, y) const
TileAt ==
  \E x \in AtCoords : \E y \in AtCoords :
    /\ call' = [op |-> "at", args |-> <<x, y>>, result |-> at(tilemap, x, y)]
    /\ last_op' = "at"
    /\ UNCHANGED <<core_vars, tile_vars, rest_of_tiles>>

\* TileMap::at(x, y), mutable, read only
TileAtMutable ==
  \E x \in AtCoords : \E y \in AtCoords :
    /\ tilemap' = at_mutable(tilemap, x, y).map
    /\ call' = [op |-> "at_mutable", args |-> <<x, y>>, result |-> at_mutable(tilemap, x, y).tile]
    /\ last_op' = "at_mutable"
    /\ UNCHANGED <<iso, rest_of_tiles>>

NextTileAt ==
  \/ TileResize
  \/ TileFill
  \/ TileAssign
  \/ TileAt
  \/ TileAtMutable

SpecTileAt == Init /\ [][NextTileAt]_vars

\* ------------------------------------------------------------------------
\* The registry life cycle: create, queue, flush, clear
\* ------------------------------------------------------------------------

\* destroy_entity of any id: live, queued already, flushed or never created
DestroyQueued ==
  \E id \in 1..(MaxEntities + 1) :
    /\ Len(em.pending_destroy) < MaxQueued
    /\ em' = destroy_entity(em, id)
    /\ flushed' = NothingFlushed
    /\ visited' = <<>>
    /\ last_op' = "destroy_entity"
    /\ UNCHANGED <<created, scene_vars, object_vars>>

NextLifecycle ==
  \/ CreateEntity
  \/ DestroyQueued
  \/ ProcessPendingDestroys
  \/ Clear

SpecLifecycle == Init /\ [][NextLifecycle]_vars

\* ------------------------------------------------------------------------
\* One Entity object and its components
\* ------------------------------------------------------------------------

ComponentKinds == {"Transform", "Tag", "SpriteRenderer"}

EntityAlive == ent.addr # NullPtr

\* add_component<K>() on the entity
EntAddComponent ==
  \E kind \in ComponentKinds :
    LET r == add_component_run(ent, kind, "")
    IN /\ EntityAlive
       /\ has_component(ent, kind) \/ ent.next_ptr <= MaxInstances
       /\ ent' = r.entity
       /\ comp_log' = r.events
       /\ ret' = [kind |-> kind, ptr |-> r.ret]
       /\ last_op' = "add_component"
       /\ UNCHANGED <<next_addr, scene_vars, entity_vars, frame_vars, animator_vars, extra_vars>>

\* remove_component<K>() on the entity
EntRemoveComponent ==
  \E kind \in ComponentKinds :
    LET r == remove_component_run(ent, kind)
    IN /\ EntityAlive
       /\ ent' = r.entity
       /\ comp_log' = r.events
       /\ ret' = [kind |-> kind, ptr |-> NullPtr]
       /\ last_op' = "remove_component"
       /\ UNCHANGED <<next_addr, scene_vars, entity_vars, frame_vars, animator_vars, extra_vars>>

\* get_component<K>()->set_enabled(b) on the entity
EntSetEnabled ==
  \E i \in 1..Len(ent.components) : \E b \in BOOLEAN :
    /\ EntityAlive
    /\ ent' = [ent EXCEPT !.components[i] = set_enabled(@, b)]
    /\ comp_log' = <<>>
    /\ ret' = [kind |-> ent.components[i].kind, ptr |-> NullPtr]
    /\ last_op' = "set_enabled"
    /\ UNCHANGED <<next_addr, scene_vars, entity_vars, frame_vars, animator_vars, extra_vars>>

\* Entity moved(std::move(entity)): the program goes on with the new object
EntMove ==
  /\ EntityAlive
  /\ next_addr <= MaxAddrs
  /\ ent' = move_entity(ent, next_addr).entity
  /\ next_addr' = next_addr + 1
  /\ comp_log' = <<>>
  /\ ret' = NothingReturned
  /\ last_op' = "move"
  /\ UNCHANGED <<scene_vars, entity_vars, frame_vars, animator_vars, extra_vars>>

\* Entity target(id); target = std::move(entity): the components target
\* was constructed with are destroyed by the assignment
EntMoveAssign ==
  LET target == NewEntityRun(ent.id, next_addr)
  IN /\ EntityAlive
     /\ next_addr <= MaxAddrs
     /\ ent' = move_assign(target.entity, ent).entity
     /\ next_addr' = next_addr + 1
     /\ comp_log' = target.events
     /\ ret' = NothingReturned
     /\ last_op' = "move_assign"
     /\ UNCHANGED <<scene_vars, entity_vars, frame_vars, animator_vars, extra_vars>>

\* the entity goes out of scope
EntDestruct ==
  /\ EntityAlive
  /\ ent' = MovedFrom(NullPtr)
  /\ comp_log' = destruct_entity(ent)
  /\ ret' = NothingReturned
  /\ last_op' = "destruct"
  /\ UNCHANGED <<next_addr, scene_vars, entity_vars, frame_vars, animator_vars, extra_vars>>

\* Entity entity(id)
EntConstruct ==
  /\ ~EntityAlive
  /\ next_addr <= MaxAddrs
  /\ ent' = NewEntityRun(1, next_addr).entity
  /\ comp_log' = NewEntityRun(1, next_addr).events
  /\ next_addr' = next_addr + 1
  /\ ret' = NothingReturned
  /\ last_op' = "construct"
  /\ UNCHANGED <<scene_vars, entity_vars, frame_vars, animator_vars, extra_vars>>

NextComponent ==
  \/ EntAddComponent
  \/ EntRemoveComponent
  \/ EntSetEnabled
  \/ EntMove
  \/ EntMoveAssign
  \/ EntDestruct
  \/ EntConstruct

SpecComponent == Init /\ [][NextComponent]_vars

\* ------------------------------------------------------------------------
\* Lookups. The registry of the Scene, the scene stack and the sprite sheet
\* are separate objects and a lookup reads one of them: each is changed
\* while the other two are as constructed.
\* ------------------------------------------------------------------------

RegistryFresh == scn = NewScene(1)
StackFresh == sm = NewSceneManager /\ next_scene = 1
SheetFresh == animations = <<>>

LookupIds == 0..(MaxEntities + 1)
LookupNames == {DefaultName(1), "ghost"}
FrameIndices == {-1, 0, MaxFrames - 1, MaxFrames}

\* the lookup op(args) returned result; nothing else is touched
Lookup(op, args, result) ==
  /\ call' = [op |-> op, args |-> args, result |-> result]
  /\ last_op' = op
  /\ UNCHANGED <<core_vars, tile_vars, scene_vars, entity_vars, component_vars, frame_vars, animator_vars>>

\* scene.entities().get_entity(id)
GetEntity ==
  \E id \in LookupIds : Lookup("get_entity", <<id>>, get_entity(scn.entities, id))

\* scene.entities().find_entity(name)
FindEntity ==
  \E name \in LookupNames : Lookup("find_entity", <<name>>, find_entity(scn.entities, name))

\* entity->get_component<K>()
GetComponent ==
  \E id \in DOMAIN scn.entities.entities : \E kind \in ComponentKinds :
    Lookup("get_component", <<id, kind>>, get_component(scn.entities.entities[id], kind))

\* sheet.frame(index)
SheetFrame ==
  \E index \in FrameIndices : Lookup("frame", <<index>>, frame(MaxFrames, index))

\* sheet.animation(name)
SheetAnimation ==
  \E name \in PlayNames : Lookup("animation", <<name>>, animation(animations, name))

\* manager.current_scene()
CurrentScene == Lookup("current_scene", <<>>, current_scene(sm))

\* manager.scene_at(index)
SceneAt ==
  \E index \in 0..MaxScenes : Lookup("scene_at", <<index>>, scene_at(sm, index))

NextLookup ==
  \/ StackFresh /\ SheetFresh /\ SceneCreateEntity
  \/ StackFresh /\ SheetFresh /\ SceneAddSprite
  \/ StackFresh /\ SheetFresh /\ SceneDestroyEntity
  \/ StackFresh /\ SheetFresh /\ SceneUpdate
  \/ RegistryFresh /\ SheetFresh /\ PushScene
  \/ RegistryFresh /\ SheetFresh /\ ProcessPending
  \/ RegistryFresh /\ StackFresh /\ DefineAnimation
  \/ GetEntity
  \/ FindEntity
  \/ GetComponent
  \/ SheetFrame
  \/ SheetAnimation
  \/ CurrentScene
  \/ SceneAt

SpecLookup == Init /\ [][NextLookup]_vars

\* ========================================================================
\* Properties
\* ========================================================================

\* what an event is about: its kind and the scenes it names
EventKey(e) ==
  IF e.kind = "transition" THEN <<e.kind, e.from, e.to>> ELSE <<e.kind, e.scene>>

EventKeys(l) == [i \in 1..Len(l) |-> EventKey(l[i])]

\* the lifecycle hooks among the events
HooksOf(l) == SelectSeq(l, LAMBDA e : e.kind # "transition")

\* the scenes the events name
LogScenes(l) ==
  UNION {IF l[i].kind = "transition" THEN {l[i].from, l[i].to} ELSE {l[i].scene} :
         i \in 1..Len(l)}

\* the stack as a list of (scene, active flag)
StackView(stk) == [i \in 1..Len(stk) |-> <<stk[i].id, stk[i].is_active>>]

Requests == {"push_scene", "replace_scene", "pop_scene", "clear_scenes"}

LifecycleKinds == {"on_enter", "on_exit", "on_pause", "on_resume", "transition"}

\* the transition callback event expected for (from, to), if the callback is set
CallbackKeys(from, to) ==
  IF sm.transition_callback THEN << <<"transition", from, to>> >> ELSE <<>>

\* ------------------------------------------------------------------------
\* C1: at most one scene of the stack is active, and with a non-empty stack
\* it is the top: the top is active and every scene below it is inactive.
OneActiveTop ==
  \A i \in 1..Len(sm.scenes) : sm.scenes[i].is_active <=> (i = Len(sm.scenes))

OneActiveTopWitness ==
  /\ last_op = "process_pending"
  /\ Len(sm.scenes) >= 2
  /\ Last(sm.scenes).is_active
  /\ ~sm.scenes[1].is_active

\* ------------------------------------------------------------------------
\* C2: push_scene, replace_scene, pop_scene and clear_scenes only record the
\* pending operation (stack, order and active flags unchanged, nothing
\* fires); outside process_pending, update and render included, the stack
\* and the flags do not change and no hook or transition callback fires,
\* even when the running scene requests a transition.
RequestsAreDeferred ==
  [][/\ last_op' \in Requests =>
          /\ sm'.scenes = sm.scenes
          /\ sm'.pending_op # "None"
          /\ sm' = [sm EXCEPT !.pending_op = sm'.pending_op,
                              !.pending_scene = sm'.pending_scene]
          /\ log' = <<>>
     /\ last_op' # "process_pending" =>
          /\ StackView(sm'.scenes) = StackView(sm.scenes)
          /\ \A i \in 1..Len(log') : log'[i].kind \notin LifecycleKinds
    ]_vars

RequestsAreDeferredWitness ==
  /\ last_op = "update"
  /\ Len(sm.scenes) >= 2
  /\ log = <<[kind |-> "update", scene |-> Last(sm.scenes).id]>>
  /\ HasPending /\ last_req.by = "update"
  /\ sm.pending_op = "Pop"

\* what process_pending does in a manager that received last_req alone
ExpectedFlush ==
  LET base == [sm EXCEPT !.pending_op = "None", !.pending_scene = NullScene]
  IN apply_pending(request(base, last_req.op, NewScene(last_req.scene)))

\* ------------------------------------------------------------------------
\* C3: of several requests issued between two process_pending calls the
\* next process_pending applies only the last: stack, flags and fired
\* events are those of a manager that received the last request alone, and
\* the scene of an overwritten push/replace never enters the stack and never
\* receives a hook.
LastRequestWins ==
  [][/\ (last_op' = "process_pending" /\ HasPending) =>
          /\ sm'.scenes = ExpectedFlush.scenes
          /\ log' = ExpectedFlush.log
     /\ discarded' \cap (SceneIds(sm'.scenes) \cup LogScenes(log')) = {}
    ]_vars

LastRequestWinsWitness ==
  /\ last_op = "process_pending"
  /\ last_req.state = "flushed" /\ last_req.overwrote
  /\ last_req.op = "Clear"
  /\ discarded # {}
  /\ Len(log) >= 2
  /\ sm.scenes = <<>>

\* ------------------------------------------------------------------------
\* C4: a pending push applied on a non-empty stack pauses the old top
\* (inactive, on_pause), puts the new scene on top (active, on_enter) and
\* only after on_enter calls the transition callback once with (old top,
\* new scene); on an empty stack no on_pause fires and the callback
\* receives (null, new scene).
PushEntersBeforeTransition ==
  [][(last_op' = "process_pending" /\ sm.pending_op = "Push"
      /\ sm.pending_scene.id # NullPtr) =>
       LET new == sm.pending_scene.id
       IN IF sm.scenes # <<>>
          THEN LET old == Last(sm.scenes).id
               IN /\ EventKeys(log') = << <<"on_pause", old>>, <<"on_enter", new>> >>
                                        \o CallbackKeys(old, new)
                  /\ ~log'[1].active
                  /\ log'[2].active /\ log'[2].in_stack
                  /\ StackView(sm'.scenes) =
                       Append(StackView(Front(sm.scenes)), <<old, FALSE>>) \o << <<new, TRUE>> >>
          ELSE /\ EventKeys(log') = << <<"on_enter", new>> >> \o CallbackKeys(NullPtr, new)
               /\ StackView(sm'.scenes) = << <<new, TRUE>> >>
    ]_vars

\* ------------------------------------------------------------------------
\* C5: a pending pop applied at depth >= 2 marks the top inactive, fires
\* its on_exit and removes it, then marks the new top active, fires its
\* on_resume and calls the transition callback once with (popped, new top);
\* the rest of the stack is unchanged and no on_enter or on_pause fires.
\* At depth 1 the stack ends empty after on_exit, with no on_resume; on an
\* empty stack nothing changes and nothing fires.
PopExitsThenResumes ==
  [][(last_op' = "process_pending" /\ sm.pending_op = "Pop") =>
       LET n == Len(sm.scenes)
       IN CASE n >= 2 ->
                 LET old == sm.scenes[n].id
                     new == sm.scenes[n - 1].id
                 IN /\ EventKeys(log') = << <<"on_exit", old>>, <<"on_resume", new>> >>
                                          \o CallbackKeys(old, new)
                    /\ ~log'[1].active /\ log'[1].in_stack
                    /\ log'[2].active
                    /\ sm'.scenes = [Front(sm.scenes) EXCEPT ![n - 1].is_active = TRUE]
            [] n = 1 ->
                 /\ EventKeys(log') = << <<"on_exit", sm.scenes[1].id>> >>
                 /\ ~log'[1].active
                 /\ sm'.scenes = <<>>
            [] OTHER ->
                 /\ log' = <<>>
                 /\ sm'.scenes = sm.scenes
    ]_vars

PopExitsThenResumesWitness ==
  /\ last_op = "process_pending"
  /\ Len(log) = 3
  /\ log[1].kind = "on_exit" /\ log[2].kind = "on_resume" /\ log[3].kind = "transition"
  /\ Len(sm.scenes) >= 2
  /\ log[2].scene = Last(sm.scenes).id

\* ------------------------------------------------------------------------
\* C6: a pending replace applied on a non-empty stack fires on_exit on the
\* old top and removes it; the new scene takes its place as the active top
\* and receives on_enter, never on_resume; the scenes below keep their
\* positions, stay paused and receive no hook; the depth is unchanged.  On
\* an empty stack a replace acts as a push.
ReplaceSwapsTop ==
  [][(last_op' = "process_pending" /\ sm.pending_op = "Replace"
      /\ sm.pending_scene.id # NullPtr) =>
       LET new == sm.pending_scene.id
           n == Len(sm.scenes)
       IN IF n >= 1
          THEN LET old == sm.scenes[n].id
                   hooks == HooksOf(log')
               IN /\ EventKeys(hooks) = << <<"on_exit", old>>, <<"on_enter", new>> >>
                  /\ ~hooks[1].active /\ hooks[1].in_stack
                  /\ hooks[2].active /\ hooks[2].in_stack
                  /\ Len(sm'.scenes) = n
                  /\ Front(sm'.scenes) = Front(sm.scenes)
                  /\ \A i \in 1..(n - 1) : ~sm'.scenes[i].is_active
                  /\ Last(sm'.scenes).id = new /\ Last(sm'.scenes).is_active
          ELSE LET r == push_scene_internal(sm.scenes, sm.pending_scene, sm.transition_callback)
               IN sm'.scenes = r.scenes /\ log' = r.log
    ]_vars

ReplaceSwapsTopWitness ==
  /\ last_op = "process_pending"
  /\ Len(sm.scenes) >= 2
  /\ Len(log) >= 2
  /\ log[1].kind = "on_exit"
  /\ Last(log).kind = "on_enter" /\ Last(log).scene = Last(sm.scenes).id

\* ------------------------------------------------------------------------
\* C7: a pending clear fires on_exit exactly once on every scene, top to
\* bottom, each marked inactive; the stack ends empty and no on_enter,
\* on_pause, on_resume or transition callback fires.
ClearExitsTopDown ==
  [][(last_op' = "process_pending" /\ sm.pending_op = "Clear") =>
       LET n == Len(sm.scenes)
       IN /\ EventKeys(log') = [i \in 1..n |-> <<"on_exit", sm.scenes[n + 1 - i].id>>]
          /\ \A i \in 1..Len(log') : ~log'[i].active /\ log'[i].in_stack
          /\ sm'.scenes = <<>>
    ]_vars

ClearExitsTopDownWitness ==
  /\ last_op = "process_pending"
  /\ sm.scenes = <<>>
  /\ Len(log) >= 3
  /\ \A i \in 1..Len(log) : log[i].kind = "on_exit"
  /\ sm.transition_callback

\* ------------------------------------------------------------------------
\* C8: SceneManager.update calls update on the top scene and on no other
\* scene (the scenes below are left as they are); with an empty stack it
\* does nothing.
UpdateOnlyTop ==
  [][last_op' = "update" =>
       LET n == Len(sm.scenes)
       IN IF n = 0
          THEN log' = <<>> /\ sm' = sm
          ELSE /\ log' = <<[kind |-> "update", scene |-> sm.scenes[n].id]>>
               /\ Front(sm'.scenes) = Front(sm.scenes)
    ]_vars

UpdateOnlyTopWitness ==
  /\ last_op = "update"
  /\ Len(sm.scenes) >= 3
  /\ log = <<[kind |-> "update", scene |-> Last(sm.scenes).id]>>

\* ------------------------------------------------------------------------
\* C9: with a renderer set, SceneManager.render calls render exactly once
\* on every scene of the stack, paused ones included, bottom to top.
RenderBottomToTop ==
  [][(last_op' = "render" /\ sm.renderer) =>
       log' = [i \in 1..Len(sm.scenes) |-> [kind |-> "render", scene |-> sm.scenes[i].id]]
    ]_vars

RenderBottomToTopWitness ==
  /\ last_op = "render"
  /\ Len(sm.scenes) >= 3
  /\ Len(log) = Len(sm.scenes)
  /\ log[1].scene = sm.scenes[1].id /\ ~sm.scenes[1].is_active

\* the names an entity can carry
AllNames == {"a"} \cup {DefaultName(i) : i \in EntityIds}

\* the active entities in iteration order
ActiveInOrder(m) == SelectSeq(m.order, LAMBDA i : m.entities[i].active)

VisitedIds(v) == [i \in 1..Len(v) |-> v[i].id]

\* the pass of a callback that destroys nothing
PlainPass(m) == VisitedIds(for_each(m, [i \in DOMAIN m.entities |-> <<>>]).visited)

\* ------------------------------------------------------------------------
\* C10: destroy_entity only appends the id to the pending-destroy list:
\* until the flush get_entity, find_entity, find_entities_with_tag, for_each
\* and entity_count answer as before; destroying an entity from inside a
\* for_each callback does not change which entities that pass visits.
DestroyIsDeferred ==
  [][/\ last_op' = "destroy_entity" =>
          /\ em'.entities = em.entities
          /\ em'.order = em.order
          /\ em'.next_id = em.next_id
          /\ Len(em'.pending_destroy) = Len(em.pending_destroy) + 1
          /\ Front(em'.pending_destroy) = em.pending_destroy
          /\ \A id \in 0..(MaxEntities + 1) : get_entity(em', id) = get_entity(em, id)
          /\ \A n \in AllNames : find_entity(em', n) = find_entity(em, n)
          /\ \A t \in TagValues : find_entities_with_tag(em', t) = find_entities_with_tag(em, t)
          /\ entity_count(em') = entity_count(em)
          /\ PlainPass(em') = PlainPass(em)
     /\ last_op' = "for_each" =>
          /\ VisitedIds(visited') = ActiveInOrder(em)
          /\ em'.entities = em.entities
          /\ entity_count(em') = entity_count(em)
    ]_vars

DestroyIsDeferredWitness ==
  /\ last_op = "for_each"
  /\ Len(visited) >= 2
  /\ visited[1].destroys = <<visited[2].id>>
  /\ visited[2].id \in DOMAIN em.entities

\* the entities a query can return: by id, by name, by tag or by a pass
Returned(m) ==
  {get_entity(m, id) : id \in 0..(MaxEntities + 1)}
    \cup {find_entity(m, n) : n \in AllNames}
    \cup UNION {Range(find_entities_with_tag(m, t)) : t \in TagValues}
    \cup Range(PlainPass(m))

\* ------------------------------------------------------------------------
\* C11: process_pending_destroys removes every entity whose id is queued
\* and empties the list; the entities not queued and the id counter are
\* unchanged; afterwards get_entity of a flushed id is null and no query or
\* for_each pass returns a flushed entity.
FlushErasesQueued ==
  [][last_op' = "process_pending_destroys" =>
       LET queued == Range(em.pending_destroy)
       IN /\ DOMAIN em'.entities = DOMAIN em.entities \ queued
          /\ \A id \in DOMAIN em'.entities : em'.entities[id] = em.entities[id]
          /\ em'.order = SelectSeq(em.order, LAMBDA i : i \notin queued)
          /\ em'.pending_destroy = <<>>
          /\ em'.next_id = em.next_id
          /\ \A id \in queued : get_entity(em', id) = NullPtr
          /\ Returned(em') \cap queued = {}
    ]_vars

FlushErasesQueuedWitness ==
  /\ last_op = "process_pending_destroys"
  /\ Cardinality(flushed.live) >= 1
  /\ entity_count(em) >= 1
  /\ em.pending_destroy = <<>>

\* the queued ids that are in the registry, each once, in queue order
RECURSIVE Dedup(_, _)
Dedup(l, seen) ==
  IF l = <<>> THEN <<>>
  ELSE IF Head(l) \in seen THEN Dedup(Tail(l), seen)
  ELSE <<Head(l)>> \o Dedup(Tail(l), seen \cup {Head(l)})

LiveOnce(m) ==
  Dedup(SelectSeq(m.pending_destroy, LAMBDA i : i \in DOMAIN m.entities), {})

\* ------------------------------------------------------------------------
\* C13: queueing an id more than once, or an id that is not (or no longer)
\* in the registry, is a no-op: the flush leaves the registry that queueing
\* each live id exactly once leaves, and removes no other entity.
DoubleDestroyIsNoOp ==
  [][last_op' = "process_pending_destroys" =>
       /\ em' = process_pending_destroys([em EXCEPT !.pending_destroy = LiveOnce(em)])
       /\ DOMAIN em.entities \ DOMAIN em'.entities = Range(LiveOnce(em))
    ]_vars

DoubleDestroyIsNoOpWitness ==
  /\ last_op = "process_pending_destroys"
  /\ Len(flushed.ids) = 3
  /\ flushed.ids[1] = flushed.ids[2]
  /\ flushed.ids[1] \in flushed.live
  /\ flushed.ids[3] \notin flushed.live
  /\ entity_count(em) >= 1

\* ------------------------------------------------------------------------
\* C14: every id create_entity returns differs from every id it returned
\* before (also the ids of entities destroyed or cleared since) and is
\* never 0; the returned ids are strictly increasing.
IdsNeverReused ==
  /\ \A i \in 1..Len(created) : created[i] # INVALID_ENTITY
  /\ \A i, j \in 1..Len(created) : i < j => created[i] < created[j]

IdsNeverReusedWitness ==
  /\ last_op = "create_entity"
  /\ Len(created) >= 2
  /\ entity_count(em) = 1

\* ------------------------------------------------------------------------
\* Components of one entity
\* ------------------------------------------------------------------------

\* the instances of a kind in the owned list of an entity
OfKind(e, kind) == SelectSeq(e.components, LAMBDA c : c.kind = kind)

\* the instances in the owned list of an entity
Instances(e) == {e.components[i].ptr : i \in 1..Len(e.components)}

\* C15: add_component<K> on an entity that already has a K returns the
\* existing instance, constructs nothing, fires no on_attach and leaves the
\* component list and the lookup as they were; one K stays attached.
AddIsIdempotent ==
  [][(last_op' = "add_component" /\ has_component(ent, ret'.kind)) =>
       /\ ret'.ptr = get_component(ent, ret'.kind).ptr
       /\ ret'.ptr # NullPtr
       /\ comp_log' = <<>>
       /\ ent'.components = ent.components
       /\ ent'.component_map = ent.component_map
       /\ ent'.next_ptr = ent.next_ptr
       /\ Len(OfKind(ent', ret'.kind)) = 1]_vars

\* a second add_component<Tag> has returned the Tag attached before
AddIsIdempotentWitness ==
  /\ last_op = "add_component"
  /\ ret.kind = "Tag"
  /\ comp_log = <<>>
  /\ ret.ptr = get_component(ent, "Tag").ptr
  /\ ret.ptr # NullPtr

\* C16: the owned list holds at most one component of each kind, and the
\* lookup has one entry for each component of the list, pointing to it, and
\* none for a kind that is not in the list.
OneComponentPerKind ==
  /\ \A kind \in ComponentKinds : Len(OfKind(ent, kind)) <= 1
  /\ DOMAIN ent.component_map = {ent.components[i].kind : i \in 1..Len(ent.components)}
  /\ \A i \in 1..Len(ent.components) :
       ent.component_map[ent.components[i].kind] = ent.components[i].ptr
  /\ \A id \in DOMAIN em.entities :
       LET e == em.entities[id]
       IN /\ \A kind \in ComponentKinds : Len(OfKind(e, kind)) <= 1
          /\ DOMAIN e.component_map = {e.components[i].kind : i \in 1..Len(e.components)}
          /\ \A i \in 1..Len(e.components) :
               e.component_map[e.components[i].kind] = e.components[i].ptr

\* a kind was removed and added again next to two other components
OneComponentPerKindWitness ==
  /\ last_op = "add_component"
  /\ Len(ent.components) = 3
  /\ ent.next_ptr > 4

\* C17: every component attached to an entity has that entity as owner:
\* on_attach sets it, a move rebinds it to the destination, on_detach
\* clears it.
OwnerIsConsistent ==
  /\ \A i \in 1..Len(ent.components) : ent.components[i].owner = ent.addr
  /\ \A id \in DOMAIN em.entities :
       \A i \in 1..Len(em.entities[id].components) :
         em.entities[id].components[i].owner = em.entities[id].addr
  /\ \A i \in 1..Len(comp_log) :
       /\ comp_log[i].hook = "on_attach" => comp_log[i].owner = ent.addr
       /\ comp_log[i].hook = "on_detach" =>
            (comp_log[i].owner = NullPtr /\ comp_log[i].ptr \notin Instances(ent))

\* an entity with two components has been moved to another address
OwnerIsConsistentWitness ==
  /\ last_op = "move"
  /\ Len(ent.components) >= 2
  /\ ent.addr # 1

\* C18: remove_component<K> on an entity that has K fires on_detach on it;
\* then get_component<K> is null and has_component<K> false, and the other
\* components are as before; without K nothing changes. A later
\* add_component<K> attaches a fresh instance and fires on_attach.
RemoveDetaches ==
  [][/\ (last_op' = "remove_component" /\ has_component(ent, ret'.kind)) =>
          /\ comp_log' = <<[hook |-> "on_detach", ptr |-> ent.component_map[ret'.kind],
                            kind |-> ret'.kind, owner |-> NullPtr]>>
          /\ get_component(ent', ret'.kind) = NullComponent
          /\ ~has_component(ent', ret'.kind)
          /\ ent'.components = SelectSeq(ent.components, LAMBDA c : c.kind # ret'.kind)
          /\ \A kind \in ComponentKinds \ {ret'.kind} :
               /\ has_component(ent', kind) = has_component(ent, kind)
               /\ get_component(ent', kind) = get_component(ent, kind)
     /\ (last_op' = "remove_component" /\ ~has_component(ent, ret'.kind)) =>
          (ent' = ent /\ comp_log' = <<>>)
     /\ (last_op' = "add_component" /\ ~has_component(ent, ret'.kind)) =>
          /\ ret'.ptr \notin Instances(ent)
          /\ ret'.ptr >= ent.next_ptr
          /\ get_component(ent', ret'.kind) =
               on_attach(NewComponent(ret'.kind, ret'.ptr, ""), ent.addr)
          /\ comp_log' = <<[hook |-> "on_attach", ptr |-> ret'.ptr,
                            kind |-> ret'.kind, owner |-> ent.addr]>>]_vars

\* a kind that was removed has been added again: a fourth instance of
\* three kinds was constructed and attached
RemoveDetachesWitness ==
  /\ last_op = "add_component"
  /\ comp_log # <<>>
  /\ ret.ptr > Cardinality(ComponentKinds)
  /\ has_component(ent, ret.kind)

\* ------------------------------------------------------------------------
\* Queries over the registry
\* ------------------------------------------------------------------------

\* the entities of the registry that are active
ActiveIds(m) == {id \in DOMAIN m.entities : m.entities[id].active}

\* the active entities of the registry with an enabled component of a kind
EnabledIds(m, kind) ==
  {id \in ActiveIds(m) :
     \E i \in 1..Len(m.entities[id].components) :
       /\ m.entities[id].components[i].kind = kind
       /\ m.entities[id].components[i].enabled}

\* every id of the list is in the set and every id of the set is once in
\* the list
OnceEach(ids, set) ==
  /\ Range(ids) = set
  /\ Len(ids) = Cardinality(set)

\* C19: for_each calls back once for each active entity and for no other;
\* for_each<K> once for each active entity with an enabled K and for no
\* other. Entities queued for destruction are still visited, and neither
\* query changes the registry.
ForEachVisitsActive ==
  [][/\ last_op' = "for_each" => OnceEach(VisitedIds(visited'), ActiveIds(em))
     /\ last_op' = "for_each_kind" => OnceEach(VisitedIds(visited'), EnabledIds(em, "Tag"))
     /\ last_op' \in {"for_each", "for_each_kind"} =>
          /\ em'.entities = em.entities
          /\ em'.order = em.order
          /\ em'.next_id = em.next_id
          /\ (\A i \in 1..Len(visited') : visited'[i].destroys = <<>>) => em' = em]_vars

\* for_each<Tag> has visited an entity that is queued for destruction and
\* has left out another entity of the registry
ForEachVisitsActiveWitness ==
  /\ last_op = "for_each_kind"
  /\ \E i \in 1..Len(visited) :
       /\ visited[i].id \in Range(em.pending_destroy)
       /\ visited[i].destroys = <<>>
  /\ \E id \in DOMAIN em.entities :
       /\ id \notin Range(VisitedIds(visited))
       /\ em.entities[id].active
       /\ has_component(em.entities[id], "Tag")

\* ------------------------------------------------------------------------
\* The frames of one Scene
\* ------------------------------------------------------------------------

DrawnIds == {draws[i].id : i \in 1..Len(draws)}

\* C12: when Scene::update returns, every entity destroy_entity was called
\* for is erased from the registry of the scene and the pending list is
\* empty; the sprites a later Scene::render submits are of entities of the
\* registry, never of an entity that update erased.
FlushBeforeRender ==
  [][/\ last_op' = "Scene_update" =>
          /\ \A id \in Range(scn.entities.pending_destroy) :
               /\ id \notin DOMAIN scn'.entities.entities
               /\ id \notin Range(scn'.entities.order)
          /\ scn'.entities.pending_destroy = <<>>
          /\ \A id \in DOMAIN scn.entities.entities \ Range(scn.entities.pending_destroy) :
               /\ id \in DOMAIN scn'.entities.entities
               /\ scn'.entities.entities[id] = scn.entities.entities[id]
     /\ last_op' = "Scene_render" =>
          /\ DrawnIds' \subseteq DOMAIN scn.entities.entities
          /\ last_op = "Scene_update" => DrawnIds' \cap Range(flushed.ids) = {}]_vars

\* the render that follows an update which erased an entity draws the
\* sprite of an entity that stayed
FlushBeforeRenderWitness ==
  /\ last_op = "Scene_render"
  /\ flushed.live # {}
  /\ draws # <<>>
  /\ scn.entities.pending_destroy = <<>>

\* ------------------------------------------------------------------------
\* The Animator
\* ------------------------------------------------------------------------

\* the animator has a sheet and its current animation is defined there and
\* does not loop
OnNonLooping(a, anims) ==
  /\ a.sheet
  /\ a.current_anim \in DOMAIN anims
  /\ ~anims[a.current_anim].looping

\* C20: for a defined non-looping animation of total duration D,
\* is_finished is true exactly when the elapsed time is at least D; the
\* update that reaches D stops the animator, an update that stays below D
\* does not; an update of an animator that is not playing leaves the elapsed
\* time and the frame shown as they were.
NonLoopingFinishes ==
  [][/\ OnNonLooping(animator', animations') =>
          (Animator_is_finished(animator', animations') <=>
             animator'.elapsed >= total_duration(animations'[animator'.current_anim]))
     /\ (last_op' = "Animator_update" /\ animator.playing /\ OnNonLooping(animator, animations)) =>
          /\ animator'.elapsed >= animator.elapsed
          /\ animator'.playing <=>
               animator'.elapsed < total_duration(animations[animator.current_anim])
          /\ animator'.current_anim = animator.current_anim
     /\ (last_op' = "Animator_update" /\ ~animator.playing) =>
          /\ animator'.elapsed = animator.elapsed
          /\ ~animator'.playing
          /\ Animator_current_region(animator', animations') =
               Animator_current_region(animator, animations)
          /\ Animator_is_finished(animator', animations') =
               Animator_is_finished(animator, animations)]_vars

\* an animator stopped by reaching the end of a two-frame non-looping
\* animation was updated again: it shows the last frame and is finished
NonLoopingFinishesWitness ==
  /\ last_op = "Animator_update"
  /\ ~was_playing
  /\ ~animator.playing
  /\ OnNonLooping(animator, animations)
  /\ frame_count(animations[animator.current_anim]) = 2
  /\ animator.elapsed > total_duration(animations[animator.current_anim])
  /\ Animator_is_finished(animator, animations)
  /\ Animator_current_region(animator, animations) = 1

\* ------------------------------------------------------------------------
\* The frame of an animation at a time
\* ------------------------------------------------------------------------

\* what animation_frame_index must return for an animation with a frame:
\* one of its frame_indices; the last one for a non-looping animation at or
\* after its total duration; for a looping one the frame at the time modulo
\* the total duration
FrameIndexAsClaimed(anim, time, result) ==
  /\ result \in Range(anim.frame_indices)
  /\ (~anim.looping /\ time >= total_duration(anim)) =>
       result = Last(anim.frame_indices)
  /\ (anim.looping /\ total_duration(anim) > 0) =>
       result = anim.frame_indices[((time % total_duration(anim)) \div anim.frame_duration) + 1]

\* C21 as stated: for every animation with at least one frame,
\* animation_frame_index returns one of its frame_indices, the last frame
\* for a non-looping animation at or beyond the total duration, and for a
\* looping animation the frame at the time modulo the total duration.
FrameIndexAnyDuration ==
  [][(last_op' = "animation_frame_index"
      /\ call'.args[1] \in DOMAIN animations
      /\ frame_count(animations[call'.args[1]]) >= 1) =>
       FrameIndexAsClaimed(animations[call'.args[1]], call'.args[2], call'.result)]_vars

\* C21, amended: the same for every animation with at least one frame and a
\* frame duration of at least 0.0001 s.
FrameIndexInSequence ==
  [][(last_op' = "animation_frame_index"
      /\ call'.args[1] \in DOMAIN animations
      /\ frame_count(animations[call'.args[1]]) >= 1
      /\ animations[call'.args[1]].frame_duration >= Epsilon) =>
       FrameIndexAsClaimed(animations[call'.args[1]], call'.args[2], call'.result)]_vars

\* a two-frame non-looping animation asked beyond its total duration has
\* answered with its last frame
FrameIndexInSequenceWitness ==
  /\ last_op = "animation_frame_index"
  /\ call.args[1] \in DOMAIN animations
  /\ frame_count(animations[call.args[1]]) = 2
  /\ ~animations[call.args[1]].looping
  /\ animations[call.args[1]].frame_duration >= Epsilon
  /\ call.args[2] > total_duration(animations[call.args[1]])
  /\ call.result = 1

\* ------------------------------------------------------------------------
\* What Scene::render draws
\* ------------------------------------------------------------------------

\* the component of a kind is attached to the entity and enabled
HasEnabled(e, kind) ==
  \E i \in 1..Len(e.components) : e.components[i].kind = kind /\ e.components[i].enabled

\* C22: Scene::render submits a sprite for an entity exactly when the entity
\* is active and has a Transform and a SpriteRenderer that are both enabled.
RenderOnlyEnabledPairs ==
  [][(last_op' = "Scene_render" /\ call'.args[1]) =>
       /\ DrawnIds' = {id \in DOMAIN scn.entities.entities :
                         /\ scn.entities.entities[id].active
                         /\ HasEnabled(scn.entities.entities[id], "Transform")
                         /\ HasEnabled(scn.entities.entities[id], "SpriteRenderer")}
       /\ Len(draws') = Cardinality(DrawnIds')]_vars

\* the place of an entity in the iteration of the registry
PlaceOf(m, id) == CHOOSE i \in 1..Len(m.order) : m.order[i] = id

\* C23: Scene::render submits sprites in non-decreasing layer order, and
\* sprites of equal layer in the order the registry iteration visited their
\* entities.
RenderStableByLayer ==
  [][last_op' = "Scene_render" =>
       \A i, j \in 1..Len(draws') :
         i < j =>
           /\ draws'[i].layer <= draws'[j].layer
           /\ draws'[i].layer = draws'[j].layer =>
                PlaceOf(scn.entities, draws'[i].id) < PlaceOf(scn.entities, draws'[j].id)]_vars

\* C24: no sprite with the invalid texture handle is submitted by
\* Scene::render.
NoInvalidTextureDrawn ==
  \A i \in 1..Len(draws) : draws[i].texture # INVALID_TEXTURE

\* ------------------------------------------------------------------------
\* TileMap and Isometric
\* ------------------------------------------------------------------------

\* the callback calls of the last for_each_visible
Delivered == IF call.op = "for_each_visible" THEN call.result ELSE <<>>

\* x + y + height * 1000 of a delivered tile
KeyOf(d) == d.x + d.y + d.tile.height * 1000

\* C25: for_each_visible calls the callback in non-decreasing order of the
\* key x + y + height * 1000; among delivered tiles of equal x + y a tile
\* of greater height is never delivered before one of smaller height.
DeliveredInKeyOrder ==
  \A i \in DOMAIN Delivered : \A j \in DOMAIN Delivered :
    /\ i < j => KeyOf(Delivered[i]) <= KeyOf(Delivered[j])
    /\ (/\ Delivered[i].x + Delivered[i].y = Delivered[j].x + Delivered[j].y
        /\ Delivered[i].tile.height > Delivered[j].tile.height) => j < i

\* tiles of equal x + y and of different heights were delivered, and a
\* tile of greater x + y before a raised one
DeliveredInKeyOrderWitness ==
  /\ \E i \in DOMAIN Delivered : \E j \in DOMAIN Delivered :
       /\ Delivered[i].x + Delivered[i].y = Delivered[j].x + Delivered[j].y
       /\ Delivered[i].tile.height > Delivered[j].tile.height
  /\ \E i \in DOMAIN Delivered : \E j \in DOMAIN Delivered :
       /\ i < j
       /\ Delivered[i].x + Delivered[i].y > Delivered[j].x + Delivered[j].y

\* the clamped bounding box of the last for_each_visible is empty
EmptyBox ==
  LET box == visible_box(tilemap, iso, call.args[1])
  IN box.min_x > box.max_x \/ box.min_y > box.max_y

\* C26: every tile for_each_visible delivers has tile_id # 0 and
\* coordinates inside the map, no position is delivered twice in a call,
\* and on a map of zero width or height, or with an empty clamped box, the
\* callback is never called.
DeliveredAreTiles ==
  call.op = "for_each_visible" =>
    /\ \A i \in DOMAIN Delivered :
         /\ Delivered[i].tile.tile_id # 0
         /\ Delivered[i].x >= 0 /\ Delivered[i].x < tilemap.width
         /\ Delivered[i].y >= 0 /\ Delivered[i].y < tilemap.height
         /\ Delivered[i].tile = tilemap.tiles[Delivered[i].y * tilemap.width + Delivered[i].x + 1]
         /\ \A j \in DOMAIN Delivered :
              (Delivered[i].x = Delivered[j].x /\ Delivered[i].y = Delivered[j].y) => i = j
    /\ (tilemap.width = 0 \/ tilemap.height = 0 \/ EmptyBox) => Delivered = <<>>

\* a call that delivered tiles from a box that also holds an empty tile
DeliveredAreTilesWitness ==
  /\ Len(Delivered) >= 2
  /\ LET box == visible_box(tilemap, iso, call.args[1])
     IN \E x \in box.min_x..box.max_x : \E y \in box.min_y..box.max_y :
          at(tilemap, x, y).tile_id = 0

\* a call on a map with tiles whose clamped box is empty
EmptyBoxReached ==
  /\ call.op = "for_each_visible"
  /\ tilemap.width > 0 /\ tilemap.height > 0
  /\ \E i \in DOMAIN tilemap.tiles : tilemap.tiles[i].tile_id # 0
  /\ EmptyBox

\* a call that left out a tile of the box that is not on screen
OffScreenReached ==
  /\ call.op = "for_each_visible"
  /\ LET box == visible_box(tilemap, iso, call.args[1])
     IN \E x \in box.min_x..box.max_x : \E y \in box.min_y..box.max_y :
          /\ at(tilemap, x, y).tile_id # 0
          /\ \A i \in DOMAIN Delivered : Delivered[i].x # x \/ Delivered[i].y # y

\* a 3x3 map of ground tiles, tile size 64x32, camera (0, 0), and the last
\* call was for_each_visible with the viewport (0, 0, 256, 256)
ScenarioCalled ==
  /\ tilemap.width = 3 /\ tilemap.height = 3
  /\ \A i \in DOMAIN tilemap.tiles : tilemap.tiles[i] = GroundTile
  /\ iso = [tile_width |-> 64, tile_height |-> 32, camera_x |-> 0, camera_y |-> 0]
  /\ call.op = "for_each_visible"
  /\ call.args[1] = [x |-> 0, y |-> 0, width |-> 256, height |-> 256]

\* C27: on the 3x3 map of tiles with tile_id 1 and height 0, tile size
\* 64x32, camera (0, 0) and viewport (0, 0, 256, 256), for_each_visible
\* calls the callback for all 9 tiles, each once, in non-decreasing x + y.
ScenarioDeliversAllNine ==
  ScenarioCalled =>
    /\ Len(Delivered) = 9
    /\ \A x \in 0..2 : \A y \in 0..2 :
         Cardinality({i \in DOMAIN Delivered : Delivered[i].x = x /\ Delivered[i].y = y}) = 1
    /\ \A i \in DOMAIN Delivered : \A j \in DOMAIN Delivered :
         i < j => Delivered[i].x + Delivered[i].y <= Delivered[j].x + Delivered[j].y

\* the scenario was run, and the corner tile (0, 2) did not come last
ScenarioDeliversAllNineWitness ==
  /\ ScenarioCalled
  /\ \E i \in DOMAIN Delivered : i < 6 /\ Delivered[i].x = 0 /\ Delivered[i].y = 2

\* the last call was op, and this step hands the point it returned to next
HandsOn(op, next) ==
  /\ call.op = op
  /\ call'.op = next
  /\ call'.args = <<call.result.x, call.result.y>>
  /\ iso' = iso

\* the point a conversion returned is the point (x, y)
IsPoint(point, x, y) == QEq(point.x, x) /\ QEq(point.y, y)

\* C28: for every tile size with non-zero width and height and every
\* camera offset, screen_to_tile(tile_to_screen(x, y)) = (x, y) and
\* tile_to_screen(screen_to_tile(sx, sy)) = (sx, sy), where
\* tile_to_screen(tx, ty) = ((tx - ty) * tile_width / 2 - camera_x,
\* (tx + ty) * tile_height / 2 - camera_y), in exact arithmetic.
RoundTripIsIdentity ==
  [][/\ HandsOn("tile_to_screen", "screen_to_tile") =>
          IsPoint(call'.result, call.args[1], call.args[2])
     /\ HandsOn("screen_to_tile", "tile_to_screen") =>
          IsPoint(call'.result, call.args[1], call.args[2])
     /\ call'.op = "tile_to_screen" =>
          IsPoint(call'.result,
                  QSub(QDiv(QMul(QSub(call'.args[1], call'.args[2]), QInt(iso.tile_width)), QInt(2)),
                       QInt(iso.camera_x)),
                  QSub(QDiv(QMul(QAdd(call'.args[1], call'.args[2]), QInt(iso.tile_height)), QInt(2)),
                       QInt(iso.camera_y)))]_vars

\* a fractional tile position came back from the screen point it was
\* converted to, under a moved camera and a tile size that is not the first
RoundTripIsIdentityWitness ==
  /\ call.op = "screen_to_tile"
  /\ call.args \notin ScreenPoints \X ScreenPoints
  /\ call.result = [x |-> Q(1, 2), y |-> QInt(-1)]
  /\ iso.camera_x # 0
  /\ iso.tile_width < 0

\* a screen point came back from the tile position it was converted to
ScreenRoundTripReached ==
  /\ call.op = "tile_to_screen"
  /\ call.args \notin TilePoints \X TilePoints
  /\ call.result = [x |-> Q(1, 3), y |-> QInt(-5)]
  /\ iso.camera_y # 0

\* this step calls op with a position outside the map
OutsideCall(op) ==
  /\ call'.op = op
  /\ last_op' = op
  /\ ~in_bounds(tilemap, call'.args[1], call'.args[2])

\* C30: at(x, y) with (x, y) outside the map returns the empty tile
\* (tile_id 0, height 0, flags 0); writing through the mutable reference
\* got for a position outside the map changes no tile of the map, and every
\* later at() outside the map, const or mutable, still returns an empty tile.
OutOfBoundsIsEmpty ==
  [][/\ (OutsideCall("at") \/ OutsideCall("at_mutable")) =>
          /\ call'.result = [tile_id |-> 0, height |-> 0, flags |-> 0]
          /\ tilemap'.tiles = tilemap.tiles
     /\ OutsideCall("assign_at") =>
          /\ tilemap'.tiles = tilemap.tiles
          /\ tilemap'.width = tilemap.width /\ tilemap'.height = tilemap.height]_vars

\* at() outside a map that holds tiles returned the empty tile after a tile
\* had been written through the reference for a position outside the map
OutOfBoundsIsEmptyWitness ==
  /\ call.op = "at"
  /\ ~in_bounds(tilemap, call.args[1], call.args[2])
  /\ call.result = EmptyTile
  /\ tilemap.mutable_empty # EmptyTile
  /\ \E i \in DOMAIN tilemap.tiles : tilemap.tiles[i].tile_id # 0

\* ------------------------------------------------------------------------
\* Lookups of what is absent
\* ------------------------------------------------------------------------

\* this step is the lookup op
Looks(op) == last_op' = op /\ call'.op = op

\* id was handed out by the registry of the Scene and is no longer in it
Flushed(id) ==
  id >= 1 /\ id < scn.entities.next_id /\ id \notin DOMAIN scn.entities.entities

\* id was never handed out by the registry of the Scene
NeverCreated(id) == id < 1 \/ id >= scn.entities.next_id

\* C29: looking up what is absent returns the null value and changes no
\* state: get_entity of an id never created or already flushed, find_entity
\* of an unknown name, get_component<K> of a kind the entity lacks, frame of
\* an index outside 0..frame_count-1, animation of an unknown name,
\* current_scene on an empty stack, scene_at at or beyond the stack depth.
AbsentLookupsReturnNull ==
  [][/\ (Looks("get_entity") /\ (NeverCreated(call'.args[1]) \/ Flushed(call'.args[1]))) =>
          (call'.result = NullPtr /\ scn' = scn)
     /\ (Looks("find_entity")
           /\ \A id \in DOMAIN scn.entities.entities :
                scn.entities.entities[id].name # call'.args[1]) =>
          (call'.result = NullPtr /\ scn' = scn)
     /\ (Looks("get_component")
           /\ \A i \in DOMAIN scn.entities.entities[call'.args[1]].components :
                scn.entities.entities[call'.args[1]].components[i].kind # call'.args[2]) =>
          (call'.result.ptr = NullPtr /\ scn' = scn)
     /\ (Looks("frame") /\ call'.args[1] \notin 0..(MaxFrames - 1)) =>
          (call'.result = NullPtr /\ animations' = animations)
     /\ (Looks("animation") /\ call'.args[1] \notin DOMAIN animations) =>
          (call'.result = NoAnimation /\ animations' = animations)
     /\ (Looks("current_scene") /\ Len(sm.scenes) = 0) =>
          (call'.result.id = NullPtr /\ sm' = sm)
     /\ (Looks("scene_at") /\ call'.args[1] >= Len(sm.scenes)) =>
          (call'.result.id = NullPtr /\ sm' = sm)]_vars

\* get_entity of an id that was flushed while another entity is still in
\* the registry returned null
AbsentLookupsReturnNullWitness ==
  /\ last_op = "get_entity"
  /\ Flushed(call.args[1])
  /\ scn.entities.entities # <<>>
  /\ call.result = NullPtr

\* the other absent lookups, each on an object that holds something
AbsentFindReached ==
  last_op = "find_entity" /\ scn.entities.entities # <<>> /\ call.result = NullPtr
AbsentComponentReached ==
  /\ last_op = "get_component" /\ call.result.ptr = NullPtr
  /\ has_component(scn.entities.entities[call.args[1]], "SpriteRenderer")
AbsentAnimationReached ==
  last_op = "animation" /\ animations # <<>> /\ call.result = NoAnimation
AbsentSceneAtReached ==
  last_op = "scene_at" /\ call.args[1] = Len(sm.scenes) /\ Len(sm.scenes) >= 2 /\ call.result.id = NullPtr
PresentSceneAtReached ==
  last_op = "scene_at" /\ call.args[1] = Len(sm.scenes) - 1 /\ call.result.id # NullPtr
AbsentFrameReached ==
  last_op = "frame" /\ call.args[1] = MaxFrames /\ call.result = NullPtr
EmptyStackReached ==
  last_op = "current_scene" /\ call.result.id = NullPtr

\* ------------------------------------------------------------------------
\* Animations over the frames of a sheet
\* ------------------------------------------------------------------------

\* the frame indices of the animation the step defines
StoredIndices == animations'[call'.args[1]].frame_indices

\* the frame names of the call that the sheet knows, in the order given
KnownNames == SelectSeq(call'.args[2], LAMBDA n : n \in DOMAIN sprite_sheet.frame_by_name)

\* C31: every frame index define_animation stores (by index range or by
\* frame names) is a frame slot of the sheet at the moment of definition,
\* 0 <= index < frame_count; indices out of range and unknown frame names
\* are skipped, not stored.
StoredFramesAreValid ==
  [][/\ last_op' \in {"define_animation", "define_animation_names"} =>
          \A i \in DOMAIN StoredIndices :
            StoredIndices[i] >= 0 /\ StoredIndices[i] < Len(sprite_sheet.frames)
     /\ last_op' = "define_animation" =>
          /\ \A i \in DOMAIN StoredIndices :
               StoredIndices[i] >= call'.args[2] /\ StoredIndices[i] <= call'.args[3]
          /\ \A index \in call'.args[2]..call'.args[3] :
               (index >= 0 /\ index < Len(sprite_sheet.frames)) <=>
                 \E i \in DOMAIN StoredIndices : StoredIndices[i] = index
     /\ last_op' = "define_animation_names" =>
          /\ Len(StoredIndices) = Len(KnownNames)
          /\ \A i \in DOMAIN StoredIndices :
               StoredIndices[i] = sprite_sheet.frame_by_name[KnownNames[i]]]_vars

\* an animation defined by two names, one unknown and skipped, the other
\* known and stored as index 1, on a sheet of two frames
StoredFramesAreValidWitness ==
  /\ last_op = "define_animation_names"
  /\ Len(call.args[2]) = 2
  /\ Len(animations[call.args[1]].frame_indices) = 1
  /\ animations[call.args[1]].frame_indices[1] = 1
  /\ Len(sprite_sheet.frames) = 2

\* an animation defined by a range that reaches past both ends of the sheet
RangePastEndsReached ==
  /\ last_op = "define_animation"
  /\ call.args[2] < 0 /\ call.args[3] >= Len(sprite_sheet.frames)
  /\ Len(sprite_sheet.frames) = 1
  /\ animations[call.args[1]].frame_indices = <<0>>

\* ------------------------------------------------------------------------
\* GameLoop
\* ------------------------------------------------------------------------

\* the number of update callbacks in the trace of the iteration
UpdatesIn(trace) == Cardinality({i \in DOMAIN trace : trace[i] = "update"})

\* this step takes run() one step further
LoopSteps == loop' # loop /\ loop.pc # "idle"

\* C32: when stop() is called from inside the update callback, run() does
\* not unwind mid-frame: the remaining fixed updates of the iteration and
\* its render callback still run, then run() returns without starting
\* another iteration and is_running() is false; run() also returns as soon
\* as the window is not open at a frame boundary.
StopFinishesFrame ==
  [][/\ (loop'.pc = "test" /\ last_op' = "run_render" /\ loop'.stopped_at > 0) =>
          /\ UpdatesIn(loop'.trace) = loop'.due
          /\ loop'.render_callback => loop'.trace[Len(loop'.trace)] = "render"
          /\ ~loop'.running
     /\ (LoopSteps /\ loop.pc = "test" /\ ~loop.running) =>
          (loop'.pc = "idle" /\ ~loop'.running /\ loop'.trace = loop.trace)
     /\ (LoopSteps /\ loop.pc = "test" /\ ~loop.window_open) =>
          (loop'.pc = "idle" /\ ~loop'.running /\ loop'.trace = loop.trace)
     /\ (LoopSteps /\ loop.pc = "poll" /\ ~loop'.window_open) =>
          (loop'.pc = "idle" /\ ~loop'.running /\ loop'.trace = <<>>)
     /\ loop'.pc = "idle" => ~loop'.running]_vars

\* run() has returned after an iteration whose first update callback called
\* stop(): the second update and the render callback still ran
StopFinishesFrameWitness ==
  /\ loop.pc = "idle"
  /\ last_op = "run_test"
  /\ loop.stopped_at = 1
  /\ loop.window_open
  /\ loop.trace = <<"update", "update", "render">>

\* C33: in every completed iteration of run() the update callback runs k
\* times, 0 <= k <= max_frame_skip, all k calls finish before the render
\* callback of the iteration starts, and the render callback runs once.
IterationIsUpdatesThenRender ==
  (loop.pc = "test" /\ last_op = "run_render") =>
    /\ UpdatesIn(loop.trace) <= loop.max_frame_skip
    /\ \A i \in DOMAIN loop.trace : loop.trace[i] = "update" <=> i <= UpdatesIn(loop.trace)
    /\ \A i \in DOMAIN loop.trace : loop.trace[i] = "render" <=> i = UpdatesIn(loop.trace) + 1
    /\ Len(loop.trace) = UpdatesIn(loop.trace) + (IF loop.render_callback THEN 1 ELSE 0)

\* an iteration ended with as many updates as max_frame_skip allows and
\* one render
IterationIsUpdatesThenRenderWitness ==
  /\ loop.pc = "test" /\ last_op = "run_render"
  /\ loop.max_frame_skip = 2
  /\ loop.trace = <<"update", "update", "render">>

\* ------------------------------------------------------------------------
\* RingBuffer
\* ------------------------------------------------------------------------

\* the last step was this operation of the ring buffer
RingDid(op) == last_op' = op /\ call'.op = op

\* the sequence without its first element, and its last n elements
DropOldest(q) == [i \in 1..(Len(q) - 1) |-> q[i + 1]]
MostRecent(q, n) == IF Len(q) <= n THEN q ELSE [i \in 1..n |-> q[Len(q) - n + i]]

\* C34: a RingBuffer of capacity N is a FIFO queue bounded by N: its size
\* stays in 0..N; push on a full buffer returns false and changes nothing;
\* pop on an empty buffer returns nullopt and changes nothing; pop returns
\* the retained elements in the order they were inserted; push_overwrite
\* on a full buffer discards exactly the oldest element, so the buffer
\* holds the most recent N values.
RingIsBoundedFifo ==
  [][LET q == ring_contents(ring)
         after == ring_contents(ring')
     IN /\ ring'.size \in 0..RingCapacity
        /\ RingDid("push") =>
             IF Len(q) = RingCapacity
             THEN call'.result = FALSE /\ ring' = ring
             ELSE call'.result = TRUE /\ after = Append(q, call'.args[1])
        /\ RingDid("pop") =>
             IF q = <<>>
             THEN call'.result = Nullopt /\ ring' = ring
             ELSE /\ call'.result = [has_value |-> TRUE, value |-> q[1]]
                  /\ after = DropOldest(q)
        /\ RingDid("push_overwrite") =>
             /\ after = MostRecent(Append(q, call'.args[1]), RingCapacity)
             /\ Len(q) = RingCapacity => after = Append(DropOldest(q), call'.args[1])
        /\ RingDid("clear") => after = <<>>]_vars

\* push_overwrite was called on a full buffer whose oldest element was not
\* in the first cell of the array
RingIsBoundedFifoWitness ==
  /\ call.op = "push_overwrite" /\ last_op = "push_overwrite"
  /\ call.on_full
  /\ ring.tail = 0
  /\ ring_contents(ring) = <<1, 3>>

\* pop on a buffer that wrapped around returned the older element
WrappedPopReached ==
  /\ call.op = "pop" /\ last_op = "pop"
  /\ call.result = [has_value |-> TRUE, value |-> 2]
  /\ ring.tail = 0
  /\ ring_contents(ring) = <<3>>

\* push was refused by a full buffer
FullPushReached == call.op = "push" /\ last_op = "push" /\ call.result = FALSE

\* pop found the buffer empty
EmptyPopReached == call.op = "pop" /\ last_op = "pop" /\ call.result = Nullopt

\* ------------------------------------------------------------------------
\* ObjectPool
\* ------------------------------------------------------------------------

PoolDid(op) == last_op' = op /\ call'.op = op

\* the slots in use
UsedSlots(p) == {i \in DOMAIN p.used : p.used[i]}

\* C35: in an ObjectPool of capacity N active_count + available = N;
\* acquire returns null and changes nothing exactly when all N slots are in
\* use, and otherwise returns a slot that was not in use; releasing a slot
\* that is not in use raises an error and leaves the used-set unchanged.
PoolHandsOutFreeSlots ==
  [][/\ active_count(pool') + available(pool') = PoolCapacity
     /\ active_count(pool') = Cardinality(UsedSlots(pool'))
     /\ PoolDid("acquire") =>
          /\ call'.result = NullPtr <=> UsedSlots(pool) = DOMAIN pool.used
          /\ call'.result = NullPtr => pool' = pool
          /\ call'.result # NullPtr =>
               /\ call'.result - 1 \in DOMAIN pool.used
               /\ call'.result - 1 \notin UsedSlots(pool)
               /\ UsedSlots(pool') = UsedSlots(pool) \cup {call'.result - 1}
     /\ PoolDid("release") =>
          LET slot == call'.args[1] - 1
          IN /\ (slot \in DOMAIN pool.used /\ slot \notin UsedSlots(pool)) =>
                  (call'.result # "" /\ UsedSlots(pool') = UsedSlots(pool))
             /\ slot \in UsedSlots(pool) =>
                  (call'.result = "" /\ UsedSlots(pool') = UsedSlots(pool) \ {slot})]_vars

\* acquire handed out slot 0 again after it was released, while slot 2,
\* acquired after it, is still in use
PoolHandsOutFreeSlotsWitness ==
  /\ call.op = "acquire" /\ last_op = "acquire"
  /\ call.result = 1
  /\ UsedSlots(pool) = {0, 2}
  /\ pool.next_free = 1

\* acquire on a pool with every slot in use returned null
FullAcquireReached ==
  /\ call.op = "acquire" /\ last_op = "acquire"
  /\ call.result = NullPtr
  /\ UsedSlots(pool) = DOMAIN pool.used

\* a slot was released twice
DoubleReleaseReached ==
  /\ call.op = "release" /\ last_op = "release"
  /\ call.result = "logic_error"

\* ------------------------------------------------------------------------
\* for_each_visible and the viewport
\* ------------------------------------------------------------------------

\* the screen position lies within tile_width horizontally and twice
\* tile_height vertically of the viewport rectangle
WithinViewportMargin(viewport, screen) ==
  /\ QLe(QInt(viewport.x - iso.tile_width), screen.x)
  /\ QLe(screen.x, QInt(viewport.x + viewport.width + iso.tile_width))
  /\ QLe(QInt(viewport.y - 2 * iso.tile_height), screen.y)
  /\ QLe(screen.y, QInt(viewport.y + viewport.height + 2 * iso.tile_height))

\* the tile at (x, y) was delivered by the last for_each_visible
WasDelivered(x, y) == \E i \in DOMAIN Delivered : Delivered[i].x = x /\ Delivered[i].y = y

\* C36: for_each_visible keeps a non-empty tile of the candidate box exactly
\* when its screen position lies within the pixel margin around the given
\* viewport rectangle, for every viewport including those whose origin is
\* not (0,0).
KeptWithinViewportMargin ==
  call.op = "for_each_visible" =>
    LET box == visible_box(tilemap, iso, call.args[1])
    IN \A x \in box.min_x..box.max_x : \A y \in box.min_y..box.max_y :
         at(tilemap, x, y).tile_id # 0 =>
           (WasDelivered(x, y) <=>
              WithinViewportMargin(call.args[1], tile_to_screen(iso, QInt(x), QInt(y))))

\* C37: the candidate box of for_each_visible contains every non-empty tile
\* of the map whose screen position passes the pixel-margin test, for any
\* camera offset.
BoxHoldsEveryVisibleTile ==
  call.op = "for_each_visible" =>
    LET box == visible_box(tilemap, iso, call.args[1])
    IN \A x \in 0..(tilemap.width - 1) : \A y \in 0..(tilemap.height - 1) :
         (/\ at(tilemap, x, y).tile_id # 0
          /\ WithinViewportMargin(call.args[1], tile_to_screen(iso, QInt(x), QInt(y)))) =>
           (x \in box.min_x..box.max_x /\ y \in box.min_y..box.max_y)

\* ------------------------------------------------------------------------
\* The arguments of the transition callback
\* ------------------------------------------------------------------------

\* C38: whenever the transition callback is called, for a push, a pop or a
\* replace, each of its two scene arguments is null or a scene that is
\* still alive at the moment of the call: not yet removed from the stack
\* and destroyed.
TransitionArgsAlive ==
  \A i \in DOMAIN log :
    log[i].kind = "transition" => (log[i].from_alive /\ log[i].to_alive)

\* ------------------------------------------------------------------------
\* Requests made while process_pending runs
\* ------------------------------------------------------------------------

\* the request a hook or the callback made during the last process_pending
HookRequest == IF call.op = "process_pending" THEN call.args[1] ELSE "None"

\* C39: a transition requested from inside a lifecycle hook or from the
\* transition callback while process_pending is executing is discarded:
\* when process_pending returns the pending operation is None and no
\* pending scene is held, and the request is applied neither by this nor
\* by a later process_pending.
HookRequestIsDiscarded ==
  [][last_op' = "process_pending" =>
       /\ sm'.pending_op = "None"
       /\ sm'.pending_scene = NullScene
       /\ sm'.scenes = apply_pending(sm).scenes
       /\ call'.args[1] \in {"Push", "Replace"} => next_scene \notin SceneIds(sm'.scenes)
       /\ sm.pending_op = "None" => (sm'.scenes = sm.scenes /\ log' = <<>>)]_vars

\* the transition callback of a push ran and a push was requested while
\* process_pending was executing
HookRequestIsDiscardedWitness ==
  /\ last_op = "process_pending"
  /\ HookRequest = "Push"
  /\ \E i \in DOMAIN log : log[i].kind = "transition"
  /\ Len(sm.scenes) = 2

\* a hook of a pop asked to clear the stack, and the scene below is still there
HookClearReached ==
  /\ last_op = "process_pending"
  /\ HookRequest = "Clear"
  /\ \E i \in DOMAIN log : log[i].kind = "on_resume"
  /\ Len(sm.scenes) >= 1

\* ------------------------------------------------------------------------
\* Queued destroys in a paused scene
\* ------------------------------------------------------------------------

\* the entities of a scene that are queued for destruction and still in
\* its registry
QueuedIn(scene) == Range(scene.entities.pending_destroy) \cap DOMAIN scene.entities.entities

\* the entities the last SceneManager::render drew for the i-th scene
DrawnOf(d, i) == {d[i].sprites[k].id : k \in DOMAIN d[i].sprites}

\* C40: SceneManager::update flushes the pending destroys of the top scene
\* only: an entity queued for destruction in a paused scene stays in the
\* registry of that scene and is still drawn by SceneManager::render, until
\* that scene is the top again and its update runs.
PausedSceneKeepsQueued ==
  [][\A i \in 1..Len(sm.scenes) : \A id \in QueuedIn(sm.scenes[i]) :
       IF last_op' = "update" /\ i = Len(sm.scenes)
       THEN id \notin DOMAIN sm'.scenes[i].entities.entities
       ELSE /\ i < Len(sm.scenes) =>
                 /\ Len(sm'.scenes) >= i
                 /\ sm'.scenes[i].id = sm.scenes[i].id
                 /\ id \in QueuedIn(sm'.scenes[i])
            /\ (last_op' = "render" /\ sm.renderer /\ sm.scenes[i].entities.entities[id].active) =>
                 id \in DrawnOf(draws', i)]_vars

\* render drew an entity that is queued for destruction in the paused
\* scene below the top, after an update of the manager
PausedSceneKeepsQueuedWitness ==
  /\ last_op = "render"
  /\ Len(sm.scenes) = 2
  /\ QueuedIn(sm.scenes[1]) # {}
  /\ sm.scenes[2].entities.next_id > 1
  /\ DOMAIN sm.scenes[2].entities.entities = {}
  /\ Len(draws) = 2
  /\ QueuedIn(sm.scenes[1]) \subseteq DrawnOf(draws, 1)

\* the scene is the top again and its update flushed the queue
TopAgainFlushedReached ==
  /\ last_op = "update"
  /\ next_scene > 2
  /\ Len(sm.scenes) = 1
  /\ sm.scenes[1].id = 1
  /\ sm.scenes[1].entities.next_id > 1
  /\ DOMAIN sm.scenes[1].entities.entities = {}

====
